---- MODULE Spec2Model ----
(***************************************************************************)
(* The incremental grammar-constrained Earley recognizer of kbnf           *)
(* (kbnf/src/engine_base.rs, EngineBase) as a state machine.               *)
(*                                                                         *)
(* Bytes are their integer codes: 10 '\n', 97 'a', 98 'b', 99 'c',         *)
(* 123 '{', 125 '}', 255 the vocabulary's token separator byte.            *)
(* Indices (dot, production, origin, column, terminal index, set index)    *)
(* are 0-based as in the source; sequences are indexed with +1.            *)
(***************************************************************************)
EXTENDS Integers, Sequences, FiniteSets, TLC

\* ------------------------------------------------------------------ bounds
\* Largest number of bytes fed to the recognizer since the last reset.
MaxBytes == 4
\* Repetition bound N of the grammar start ::= except!('\n\n', N) '\n\n'.
MaxRep == 2
\* Bytes fed beyond the number of sets an origin of the chosen width counts.
MaxOverrun == 2

\* ------------------------------------------------------------------ facade
VARIABLES
    facade              \* the dimensions Engine::with_config was given and the
                        \* EngineUnion variant it chose; NoFacade when the
                        \* EngineBase was built directly

\* ------------------------------------------------------------ width dispatch
\* Engine::with_config compares the dimensions of the grammar and the config
\* with the largest values of u8, u16, u32 and Zero.  A dimension is held as
\* the number of bits its value needs (0 for the value 0), so that
\* value <= u8::MAX reads bits <= U8_BITS, and so on, at no loss.
ZERO_BITS == 0
U8_BITS == 8
U16_BITS == 16
U32_BITS == 32

check_id_length(d, bits) ==
    d.terminals <= bits /\ d.nonterminals <= bits /\ d.excepteds <= bits

\* The chain of tests in the order of the source: the EngineUnion variant
\* chosen, or InvalidInputError.
with_config(d) ==
    IF /\ check_id_length(d, U8_BITS) /\ d.max_r <= ZERO_BITS /\ d.td <= U8_BITS
       /\ d.tp <= U8_BITS /\ d.tsp <= U8_BITS /\ d.ts <= U32_BITS
    THEN "U8U0U8U8U8U32"
    ELSE IF /\ check_id_length(d, U8_BITS) /\ d.max_r <= ZERO_BITS /\ d.td <= U8_BITS
            /\ d.tp <= U16_BITS /\ d.tsp <= U16_BITS /\ d.ts <= U16_BITS
    THEN "U8U0U8U16U16U16"
    ELSE IF /\ check_id_length(d, U8_BITS) /\ d.max_r <= U16_BITS /\ d.td <= U8_BITS
            /\ d.tp <= U8_BITS /\ d.tsp <= U8_BITS /\ d.ts <= U32_BITS
    THEN "U8U16U8U8U8U32"
    ELSE IF /\ check_id_length(d, U16_BITS) /\ d.max_r <= ZERO_BITS /\ d.td <= U16_BITS
            /\ d.tp <= U32_BITS /\ d.tsp <= U32_BITS /\ d.ts <= U32_BITS
    THEN "U16U0U16U32U32U32"
    ELSE IF /\ check_id_length(d, U8_BITS) /\ d.max_r <= U8_BITS /\ d.td <= U8_BITS
            /\ d.tp <= U8_BITS /\ d.tsp <= U8_BITS /\ d.ts <= U32_BITS
    THEN "U8U8U8U8U8U32"
    ELSE IF /\ check_id_length(d, U8_BITS) /\ d.max_r <= U8_BITS /\ d.td <= U8_BITS
            /\ d.tp <= U16_BITS /\ d.tsp <= U16_BITS /\ d.ts <= U16_BITS
    THEN "U8U8U8U16U16U16"
    ELSE IF /\ check_id_length(d, U16_BITS) /\ d.max_r <= U8_BITS /\ d.td <= U16_BITS
            /\ d.tp <= U32_BITS /\ d.tsp <= U32_BITS /\ d.ts <= U32_BITS
    THEN "U16U8U16U32U32U32"
    ELSE IF /\ check_id_length(d, U16_BITS) /\ d.max_r <= U16_BITS /\ d.td <= U16_BITS
            /\ d.tp <= U32_BITS /\ d.tsp <= U32_BITS /\ d.ts <= U32_BITS
    THEN "U16U16U16U32U32U32"
    ELSE "InvalidInputError"

\* EngineUnion: the widths <TI, TE, TD, TP, TSP, TS> of each variant's EngineBase.
EngineUnion ==
    [ U8U0U8U8U8U32      |-> [TI |-> U8_BITS, TE |-> ZERO_BITS, TD |-> U8_BITS,
                              TP |-> U8_BITS, TSP |-> U8_BITS, TS |-> U32_BITS],
      U8U0U8U16U16U16    |-> [TI |-> U8_BITS, TE |-> ZERO_BITS, TD |-> U8_BITS,
                              TP |-> U16_BITS, TSP |-> U16_BITS, TS |-> U16_BITS],
      U16U0U16U32U32U32  |-> [TI |-> U16_BITS, TE |-> ZERO_BITS, TD |-> U16_BITS,
                              TP |-> U32_BITS, TSP |-> U32_BITS, TS |-> U32_BITS],
      U8U8U8U8U8U32      |-> [TI |-> U8_BITS, TE |-> U8_BITS, TD |-> U8_BITS,
                              TP |-> U8_BITS, TSP |-> U8_BITS, TS |-> U32_BITS],
      U8U8U8U16U16U16    |-> [TI |-> U8_BITS, TE |-> U8_BITS, TD |-> U8_BITS,
                              TP |-> U16_BITS, TSP |-> U16_BITS, TS |-> U16_BITS],
      U16U8U16U32U32U32  |-> [TI |-> U16_BITS, TE |-> U8_BITS, TD |-> U16_BITS,
                              TP |-> U32_BITS, TSP |-> U32_BITS, TS |-> U32_BITS],
      U8U16U8U8U8U32     |-> [TI |-> U8_BITS, TE |-> U16_BITS, TD |-> U8_BITS,
                              TP |-> U8_BITS, TSP |-> U8_BITS, TS |-> U32_BITS],
      U16U16U16U32U32U32 |-> [TI |-> U16_BITS, TE |-> U16_BITS, TD |-> U16_BITS,
                              TP |-> U32_BITS, TSP |-> U32_BITS, TS |-> U32_BITS] ]

\* ----------------------------------------------------------- integer widths
\* The (TI,TE,TD,TP,TSP,TS) = (u8,u8,u8,u16,u16,u16) instantiation.
STATE_ID_TYPE_BIT == 16
EXCEPTED_ID_TYPE_BIT == 8
INVALID_REPETITION == 0
\* TSP, the width of an origin and of a postdot column: that of the variant
\* Engine::with_config chose, u16 for an EngineBase built directly.
START_POSITION_TYPE_BIT ==
    IF facade.union \in DOMAIN EngineUnion THEN EngineUnion[facade.union].TSP
    ELSE U16_BITS

Pow2(n) == 2 ^ n

\* usize -> TS / TSP casts (`.as_()`): truncation to the width.
AsTS(x) == x % Pow2(STATE_ID_TYPE_BIT)
AsTSP(x) == x % Pow2(START_POSITION_TYPE_BIT)

\* ------------------------------------------------------------ small helpers
Last(s) == s[Len(s)]

RECURSIVE SetToSeq(_)
\* A hash set drained into a vector: one fixed order stands for the hash order.
SetToSeq(S) ==
    IF S = {} THEN << >>
    ELSE LET x == CHOOSE y \in S : TRUE IN <<x>> \o SetToSeq(S \ {x})

SeqToSet(s) == { s[i] : i \in DOMAIN s }

RECURSIVE SortedSeq(_)
\* The elements of a set of integers in ascending order.
SortedSeq(S) ==
    IF S = {} THEN << >>
    ELSE LET m == CHOOSE y \in S : \A z \in S : y <= z IN <<m>> \o SortedSeq(S \ {m})

EmptyMap == [x \in {} |-> 0]
MapPut(m, k, v) == [x \in (DOMAIN m) \cup {k} |-> IF x = k THEN v ELSE m[x]]
MapRemoveAll(m, ks) == [x \in (DOMAIN m) \ ks |-> m[x]]

\* --------------------------------------------------------------- automata
\* A DFA of the regex backend: state ids are premultiplied by 2^stride2,
\* index 0 is the dead state.
Bytes == {10, 97, 98, 99, 123, 125, 255}

\* #".+" anchored: 1 start, 2 matched.
DotPlusDfa ==
    [ stride2 |-> 1,
      start   |-> 1 * Pow2(1),
      len     |-> 3,
      next    |-> [s \in {0, 2, 4}, b \in Bytes |->
                     IF s = 0 \/ b = 10 THEN 0 ELSE 2 * Pow2(1)],
      status  |-> [s \in {0, 2, 4} |->
                     IF s = 0 THEN "reject" ELSE IF s = 4 THEN "accept" ELSE "in_progress"] ]

\* '\n\n' unanchored: 1 start, 2 one '\n' seen, 3 the body occurred.
NlNlDfa ==
    [ stride2 |-> 1,
      start   |-> 1 * Pow2(1),
      len     |-> 4,
      next    |-> [s \in {0, 2, 4, 6}, b \in Bytes |->
                     CASE s = 0 -> 0
                       [] s = 6 -> 6
                       [] s = 2 -> IF b = 10 THEN 4 ELSE 2
                       [] s = 4 -> IF b = 10 THEN 6 ELSE 2],
      status  |-> [s \in {0, 2, 4, 6} |->
                     IF s = 0 THEN "reject" ELSE IF s = 6 THEN "accept" ELSE "in_progress"] ]

\* #"ab+" anchored: 1 start, 2 'a' seen, 3 matched.
AbPlusDfa ==
    [ stride2 |-> 1,
      start   |-> 1 * Pow2(1),
      len     |-> 4,
      next    |-> [s \in {0, 2, 4, 6}, b \in Bytes |->
                     CASE s = 0 -> 0
                       [] s = 2 -> IF b = 97 THEN 4 ELSE 0
                       [] s = 4 -> IF b = 98 THEN 6 ELSE 0
                       [] s = 6 -> IF b = 98 THEN 6 ELSE 0],
      status  |-> [s \in {0, 2, 4, 6} |->
                     IF s = 0 THEN "reject" ELSE IF s = 6 THEN "accept" ELSE "in_progress"] ]

\* utils::dispatch_by_dfa_state_status!
check_dfa_state_status(state_id, dfa) == dfa.status[state_id]

\* ---------------------------------------------------------------- grammars
Terminal(id) == [kind |-> "Terminal", id |-> id, r |-> 0]
RegexString(id) == [kind |-> "RegexString", id |-> id, r |-> 0]
EXCEPT_(id, r) == [kind |-> "EXCEPT", id |-> id, r |-> r]
Nonterminal(id) == [kind |-> "Nonterminal", id |-> id, r |-> 0]

NoDfas == << >>

\* Lowered grammars: rules[nt+1] lists the productions of nt, longest first
\* (the order the dotted layout of the grammar store needs).
\* 1: start ::= 'aaa'
\* 2: start ::= 'bb' | start 'bb'
\* 3: start ::= 'cc' | 'cc' start
\* 4: start ::= ('{' start '}')?        lowered: '{' start '}' | '{' '}'
\* 5: start ::= #".+" '\n'
\* 6: start ::= except!('\n\n') '\n\n'
\* 7: start ::= except!('\n\n', MaxRep) '\n\n'
\* 8: start ::= 'ab'
\* 9: start ::= 'a' B;  B ::= 'a' B | 'b'
\* 10: start ::= 'a' B 'b' | 'b' B;  B ::= 'b'
\* 11: start ::= #".+" #".+" 'b'
\* 12: start ::= B 'a' | B C;  B ::= C;  C ::= 'b'
\* 13: start ::= A | B;  A ::= B | 'a';  B ::= A
\* 14: start ::= #"ab+" 'cc'
Grammars ==
    << [ start |-> 0, rules |-> << << <<Terminal(0)>> >> >>,
         terminals |-> << <<97, 97, 97>> >>, regexes |-> NoDfas, excepteds |-> NoDfas ],
       [ start |-> 0, rules |-> << << <<Nonterminal(0), Terminal(0)>>, <<Terminal(0)>> >> >>,
         terminals |-> << <<98, 98>> >>, regexes |-> NoDfas, excepteds |-> NoDfas ],
       [ start |-> 0, rules |-> << << <<Terminal(0), Nonterminal(0)>>, <<Terminal(0)>> >> >>,
         terminals |-> << <<99, 99>> >>, regexes |-> NoDfas, excepteds |-> NoDfas ],
       [ start |-> 0,
         rules |-> << << <<Terminal(0), Nonterminal(0), Terminal(1)>>,
                         <<Terminal(0), Terminal(1)>> >> >>,
         terminals |-> << <<123>>, <<125>> >>, regexes |-> NoDfas, excepteds |-> NoDfas ],
       [ start |-> 0, rules |-> << << <<RegexString(0), Terminal(0)>> >> >>,
         terminals |-> << <<10>> >>, regexes |-> <<DotPlusDfa>>, excepteds |-> NoDfas ],
       [ start |-> 0, rules |-> << << <<EXCEPT_(0, INVALID_REPETITION), Terminal(0)>> >> >>,
         terminals |-> << <<10, 10>> >>, regexes |-> NoDfas, excepteds |-> <<NlNlDfa>> ],
       [ start |-> 0, rules |-> << << <<EXCEPT_(0, MaxRep), Terminal(0)>> >> >>,
         terminals |-> << <<10, 10>> >>, regexes |-> NoDfas, excepteds |-> <<NlNlDfa>> ],
       [ start |-> 0, rules |-> << << <<Terminal(0)>> >> >>,
         terminals |-> << <<97, 98>> >>, regexes |-> NoDfas, excepteds |-> NoDfas ],
       [ start |-> 0,
         rules |-> << << <<Terminal(0), Nonterminal(1)>> >>,
                      << <<Terminal(0), Nonterminal(1)>>, <<Terminal(1)>> >> >>,
         terminals |-> << <<97>>, <<98>> >>, regexes |-> NoDfas, excepteds |-> NoDfas ],
       [ start |-> 0,
         rules |-> << << <<Terminal(0), Nonterminal(1), Terminal(1)>>,
                         <<Terminal(1), Nonterminal(1)>> >>,
                      << <<Terminal(1)>> >> >>,
         terminals |-> << <<97>>, <<98>> >>, regexes |-> NoDfas, excepteds |-> NoDfas ],
       [ start |-> 0, rules |-> << << <<RegexString(0), RegexString(0), Terminal(0)>> >> >>,
         terminals |-> << <<98>> >>, regexes |-> <<DotPlusDfa>>, excepteds |-> NoDfas ],
       [ start |-> 0,
         rules |-> << << <<Nonterminal(1), Terminal(0)>>, <<Nonterminal(1), Nonterminal(2)>> >>,
                      << <<Nonterminal(2)>> >>,
                      << <<Terminal(1)>> >> >>,
         terminals |-> << <<97>>, <<98>> >>, regexes |-> NoDfas, excepteds |-> NoDfas ],
       [ start |-> 0,
         rules |-> << << <<Nonterminal(1)>>, <<Nonterminal(2)>> >>,
                      << <<Nonterminal(2)>>, <<Terminal(0)>> >>,
                      << <<Nonterminal(1)>> >> >>,
         terminals |-> << <<97>> >>, regexes |-> NoDfas, excepteds |-> NoDfas ],
       [ start |-> 0, rules |-> << << <<RegexString(0), Terminal(0)>> >> >>,
         terminals |-> << <<99, 99>> >>, regexes |-> <<AbPlusDfa>>, excepteds |-> NoDfas ] >>

\* The grammars whose unit productions refer back to one another: a byte
\* that completes one of them is run round by round (SpecPhases), never as
\* one step.
CyclicGrammarIds == {13}
GrammarIds == (1 .. Len(Grammars)) \ CyclicGrammarIds

\* Grammar accessors.
get_start_nonterminal_id(G) == G.start
get_nonterminals_size(G) == Len(G.rules)
get_production_len(G, nt) == Len(G.rules[nt + 1])
get_terminal(G, id) == G.terminals[id + 1]
get_regex(G, id) == G.regexes[id + 1]
get_excepted(G, id) == G.excepteds[id + 1]

\* rules.view([nt]): indexed by dot, then by production index; the row of a
\* dot position holds the node of every production long enough to have one.
get_dotted_productions(G, nt) ==
    LET prods == G.rules[nt + 1]
        maxlen == Len(prods[1])
    IN [d \in 1 .. maxlen |->
          LET n == Cardinality({p \in DOMAIN prods : Len(prods[p]) >= d})
          IN [p \in 1 .. n |-> prods[p][d]]]

get_node(G, nt, dot, prod) == get_dotted_productions(G, nt)[dot + 1][prod + 1]

\* First-byte summaries of a regex / an except! automaton.
get_first_bytes_from_regex(G, id) ==
    LET dfa == get_regex(G, id)
    IN {b \in Bytes : check_dfa_state_status(dfa.next[dfa.start, b], dfa) # "reject"}
get_first_bytes_from_excepted(G, id) ==
    LET dfa == get_excepted(G, id)
    IN {b \in Bytes : check_dfa_state_status(dfa.next[dfa.start, b], dfa) # "accept"}

\* -------------------------------------------------------------- vocabulary
TOKEN_SEPARATOR == 255

\* token id -> bytes.
\* 0 "a", 1 "b", 2 "bb", 3 "{", 4 "}", 5 "\n", 6 "cc", 7 "a\xFF", 8 "\n\n"
VocabTokens ==
    << <<97>>, <<98>>, <<98, 98>>, <<123>>, <<125>>, <<10>>,
       <<99, 99>>, <<97, 255>>, <<10, 10>> >>

get_vocab_size == Len(VocabTokens)
\* Ids a caller may pass: every known id and one the lookup misses.
TokenIdInputs == 0 .. get_vocab_size

\* Some(bytes) is the byte sequence; None is << >> (no token is empty).
get_token_from_token_id(id) ==
    IF id \in 0 .. (get_vocab_size - 1) THEN VocabTokens[id + 1] ELSE << >>

ContainsSeparator(tok) == \E i \in DOMAIN tok : tok[i] = TOKEN_SEPARATOR

\* The ids of the separator-free tokens that start with first_byte, ascending.
NormalTokenIds(first_byte) ==
    SortedSeq({id \in 0 .. (get_vocab_size - 1) :
                 /\ ~ContainsSeparator(VocabTokens[id + 1])
                 /\ VocabTokens[id + 1][1] = first_byte})

RECURSIVE TokenEvents(_, _)
\* The event stream of the prefix iterator over ids[i..]: before the bytes of
\* each token a NewToken event, after which get_current_token_id() is that
\* token's id; the stream ends after the last byte of the last token.
TokenEvents(ids, i) ==
    IF i > Len(ids) THEN << >>
    ELSE LET tok == VocabTokens[ids[i] + 1]
         IN <<[kind |-> "NewToken", byte |-> 0, id |-> ids[i]]>>
            \o [k \in 1 .. Len(tok) |-> [kind |-> "TokenByte", byte |-> tok[k], id |-> ids[i]]]
            \o TokenEvents(ids, i + 1)

get_normal_tokens_from_first_byte(first_byte) == TokenEvents(NormalTokenIds(first_byte), 1)

get_tokens_containing_separators ==
    SortedSeq({id \in 0 .. (get_vocab_size - 1) : ContainsSeparator(VocabTokens[id + 1])})

\* ------------------------------------------------------ sub-state encoding
from_state_id_to_index(state_id) == state_id
\* fault: the offset into the terminal is lost when it is stored
from_index_to_state_id_LosesIndex(index) == AsTS(0)
from_index_to_state_id(index) == AsTS(index)
from_dfa_state_id_to_state_id(state_id, stride2) == AsTS(state_id \div Pow2(stride2))
from_state_id_to_dfa_state_id(state_id, stride2) == state_id * Pow2(stride2)
\* fault: the repetition count is not packed into the high bits
from_dfa_state_id_to_state_id_with_r_LosesRepetition(state_id, stride2, r) ==
    AsTS(state_id \div Pow2(stride2))

from_dfa_state_id_to_state_id_with_r(state_id, stride2, r) ==
    AsTS((state_id \div Pow2(stride2))
         + r * Pow2(STATE_ID_TYPE_BIT - EXCEPTED_ID_TYPE_BIT))
\* <<dfa state id, remaining repetitions>>
from_state_id_to_dfa_state_id_with_r(state_id, stride2) ==
    IF EXCEPTED_ID_TYPE_BIT = 0
    THEN <<from_state_id_to_dfa_state_id(state_id, stride2), 0>>
    ELSE LET r == state_id \div Pow2(STATE_ID_TYPE_BIT - EXCEPTED_ID_TYPE_BIT)
         IN <<(state_id - r * Pow2(STATE_ID_TYPE_BIT - EXCEPTED_ID_TYPE_BIT)) * Pow2(stride2), r>>

\* ------------------------------------------------------------ Earley items
EarleyItem(nt, dot, prod, origin, state) ==
    [nonterminal_id |-> nt, dot_position |-> dot, production_index |-> prod,
     start_position |-> origin, state_id |-> state]
ToBeCompletedItem(nt, origin) == [nonterminal_id |-> nt, start_position |-> origin]
Dotted(nt, column) == [postdot_nonterminal_id |-> nt, column |-> column]
LeoEligible(item) == [kind |-> "LeoEligible", items |-> <<item>>]
NormalItems(items) == [kind |-> "NormalItems", items |-> items]

NodeOf(G, item) ==
    get_node(G, item.nonterminal_id, item.dot_position, item.production_index)

initialize_state_id_based_on_node(G, node) ==
    CASE node.kind = "RegexString" ->
           LET dfa == get_regex(G, node.id)
           IN from_dfa_state_id_to_state_id(dfa.start, dfa.stride2)
      [] node.kind = "EXCEPT" ->
           LET dfa == get_excepted(G, node.id)
           IN IF node.r = INVALID_REPETITION
              THEN from_dfa_state_id_to_state_id(dfa.start, dfa.stride2)
              ELSE from_dfa_state_id_to_state_id_with_r(dfa.start, dfa.stride2, node.r)
      [] OTHER -> 0

item_should_be_completed(G, nonterminal_id, new_dot_position, production_id) ==
    LET view == get_dotted_productions(G, nonterminal_id)
    IN ~(/\ new_dot_position < Len(view)
         /\ production_id < Len(view[new_dot_position + 1]))

\* advance_item: what it inserts into the to-be-completed set it is given
\* (tbc) and what it hands to add_to_earley_set (row).
\* fault: a completed item is also handed to add_to_earley_set
advance_item_KeepsCompleted(G, item) ==
    IF item_should_be_completed(G, item.nonterminal_id, item.dot_position + 1,
                                item.production_index)
    THEN [row |-> << [item EXCEPT !.dot_position = item.dot_position + 1,
                                  !.state_id = 0] >>,
          tbc |-> {ToBeCompletedItem(item.nonterminal_id, item.start_position)}]
    ELSE [row |-> << [item EXCEPT
                        !.dot_position = item.dot_position + 1,
                        !.state_id = initialize_state_id_based_on_node(G,
                            get_node(G, item.nonterminal_id, item.dot_position + 1,
                                     item.production_index))] >>,
          tbc |-> {}]

advance_item(G, item) ==
    LET new_dotted_position == item.dot_position + 1
    IN IF item_should_be_completed(G, item.nonterminal_id, new_dotted_position,
                                   item.production_index)
       THEN [row |-> << >>,
             tbc |-> {ToBeCompletedItem(item.nonterminal_id, item.start_position)}]
       ELSE [row |-> << [item EXCEPT
                           !.dot_position = new_dotted_position,
                           !.state_id = initialize_state_id_based_on_node(G,
                               get_node(G, item.nonterminal_id, new_dotted_position,
                                        item.production_index))] >>,
             tbc |-> {}]

\* -------------------------------------------------------------------- Predict
RECURSIVE PredictLoop(_, _, _, _)
\* predict's while loop with predict_nonterminal inlined at its call; row is
\* the last Earley set, which grows while it is walked.
\* fault: only the first production of the nonterminal is predicted
predict_nonterminal_FirstProductionOnly(G, row, already, nonterminal_id, earley_set_index) ==
    IF nonterminal_id \notin already
    THEN [row |-> Append(row,
                         EarleyItem(nonterminal_id, 0, 0, AsTSP(earley_set_index),
                             initialize_state_id_based_on_node(G,
                                 get_node(G, nonterminal_id, 0, 0)))),
          already |-> already \cup {nonterminal_id}]
    ELSE [row |-> row, already |-> already]

\* fault: the predicted items take the first set as their origin
predict_nonterminal_OriginZero(G, row, already, nonterminal_id, earley_set_index) ==
    IF nonterminal_id \notin already
    THEN [row |-> row \o [j \in 1 .. get_production_len(G, nonterminal_id) |->
                            EarleyItem(nonterminal_id, 0, j - 1, AsTSP(0),
                                initialize_state_id_based_on_node(G,
                                    get_node(G, nonterminal_id, 0, j - 1)))],
          already |-> already \cup {nonterminal_id}]
    ELSE [row |-> row, already |-> already]

\* fault: the predicted items take the set after the current one as origin
predict_nonterminal_OriginNext(G, row, already, nonterminal_id, earley_set_index) ==
    IF nonterminal_id \notin already
    THEN [row |-> row \o [j \in 1 .. get_production_len(G, nonterminal_id) |->
                            EarleyItem(nonterminal_id, 0, j - 1, AsTSP(earley_set_index + 1),
                                initialize_state_id_based_on_node(G,
                                    get_node(G, nonterminal_id, 0, j - 1)))],
          already |-> already \cup {nonterminal_id}]
    ELSE [row |-> row, already |-> already]

predict_nonterminal(G, row, already, nonterminal_id, earley_set_index) ==
    IF nonterminal_id \notin already
    THEN [row |-> row \o [j \in 1 .. get_production_len(G, nonterminal_id) |->
                            EarleyItem(nonterminal_id, 0, j - 1, AsTSP(earley_set_index),
                                initialize_state_id_based_on_node(G,
                                    get_node(G, nonterminal_id, 0, j - 1)))],
          already |-> already \cup {nonterminal_id}]
    ELSE [row |-> row, already |-> already]

PredictLoop(G, p, i, earley_set_index) ==
    IF i > Len(p.row) THEN p.row
    ELSE PredictLoop(G,
                     IF NodeOf(G, p.row[i]).kind = "Nonterminal"
                     THEN predict_nonterminal(G, p.row, p.already,
                                              NodeOf(G, p.row[i]).id, earley_set_index)
                     ELSE p,
                     i + 1, earley_set_index)

\* The last Earley set after prediction; already_predicted_nonterminals is
\* cleared at the end, so the engine's bitset is empty after every call.
predict(G, earley_sets, already) ==
    [earley_sets EXCEPT ![Len(earley_sets)] =
        PredictLoop(G, [row |-> Last(earley_sets), already |-> already], 1,
                    Len(earley_sets) - 1)]

\* ----------------------------------------------------------------------- Scan
\* fault: an unbounded except item is only extended, never advanced past
ScanItem_ExceptNeverEnds(G, item, byte) ==
    LET node == NodeOf(G, item)
        nothing == [row |-> << >>, tbc |-> {}]
    IN CASE node.kind = "Terminal" ->
              LET terminal == get_terminal(G, node.id)
                  index == from_state_id_to_index(item.state_id)
              IN IF terminal[index + 1] = byte
                 THEN IF index + 1 # Len(terminal)
                      THEN [row |-> << [item EXCEPT !.state_id = from_index_to_state_id(index + 1)] >>,
                            tbc |-> {}]
                      ELSE advance_item(G, item)
                 ELSE nothing
         [] node.kind = "RegexString" ->
              LET dfa == get_regex(G, node.id)
                  state_id == dfa.next[from_state_id_to_dfa_state_id(item.state_id, dfa.stride2), byte]
                  status == check_dfa_state_status(state_id, dfa)
                  same == [item EXCEPT !.state_id = from_dfa_state_id_to_state_id(state_id, dfa.stride2)]
                  adv == advance_item(G, item)
              IN IF status = "accept" THEN [row |-> adv.row \o <<same>>, tbc |-> adv.tbc]
                 ELSE IF status = "reject" THEN nothing
                 ELSE [row |-> <<same>>, tbc |-> {}]
         [] node.kind = "EXCEPT" ->
              LET dfa == get_excepted(G, node.id)
                  sr == from_state_id_to_dfa_state_id_with_r(item.state_id, dfa.stride2)
                  state_id == dfa.next[sr[1], byte]
                  status == check_dfa_state_status(state_id, dfa)
                  r == sr[2]
                  adv == advance_item(G, item)
              IN IF status = "accept" THEN nothing
                 ELSE \* in_progress; a reject is unreachable!() in the source
                        IF r = INVALID_REPETITION
                        THEN [row |-> << [item EXCEPT !.state_id =
                                      from_dfa_state_id_to_state_id(state_id, dfa.stride2)] >>,
                              tbc |-> {}]
                        ELSE IF r - 1 = INVALID_REPETITION
                             THEN adv
                             ELSE [row |-> adv.row \o
                                     << [item EXCEPT !.state_id =
                                           from_dfa_state_id_to_state_id_with_r(
                                               state_id, dfa.stride2, r - 1)] >>,
                                   tbc |-> adv.tbc]
         [] OTHER -> nothing

\* fault: an except item whose transition matched the forbidden body is kept
ScanItem_ExceptKeepsMatched(G, item, byte) ==
    LET node == NodeOf(G, item)
        nothing == [row |-> << >>, tbc |-> {}]
    IN CASE node.kind = "Terminal" ->
              LET terminal == get_terminal(G, node.id)
                  index == from_state_id_to_index(item.state_id)
              IN IF terminal[index + 1] = byte
                 THEN IF index + 1 # Len(terminal)
                      THEN [row |-> << [item EXCEPT !.state_id = from_index_to_state_id(index + 1)] >>,
                            tbc |-> {}]
                      ELSE advance_item(G, item)
                 ELSE nothing
         [] node.kind = "RegexString" ->
              LET dfa == get_regex(G, node.id)
                  state_id == dfa.next[from_state_id_to_dfa_state_id(item.state_id, dfa.stride2), byte]
                  status == check_dfa_state_status(state_id, dfa)
                  same == [item EXCEPT !.state_id = from_dfa_state_id_to_state_id(state_id, dfa.stride2)]
                  adv == advance_item(G, item)
              IN IF status = "accept" THEN [row |-> adv.row \o <<same>>, tbc |-> adv.tbc]
                 ELSE IF status = "reject" THEN nothing
                 ELSE [row |-> <<same>>, tbc |-> {}]
         [] node.kind = "EXCEPT" ->
              LET dfa == get_excepted(G, node.id)
                  sr == from_state_id_to_dfa_state_id_with_r(item.state_id, dfa.stride2)
                  state_id == dfa.next[sr[1], byte]
                  status == check_dfa_state_status(state_id, dfa)
                  r == sr[2]
                  adv == advance_item(G, item)
              IN IF status = "accept"
                 THEN [row |-> adv.row \o
                         << [item EXCEPT !.state_id =
                               from_dfa_state_id_to_state_id(state_id, dfa.stride2)] >>,
                       tbc |-> adv.tbc]
                 ELSE \* in_progress; a reject is unreachable!() in the source
                        IF r = INVALID_REPETITION
                        THEN [row |-> adv.row \o
                                << [item EXCEPT !.state_id =
                                      from_dfa_state_id_to_state_id(state_id, dfa.stride2)] >>,
                              tbc |-> adv.tbc]
                        ELSE IF r - 1 = INVALID_REPETITION
                             THEN adv
                             ELSE [row |-> adv.row \o
                                     << [item EXCEPT !.state_id =
                                           from_dfa_state_id_to_state_id_with_r(
                                               state_id, dfa.stride2, r - 1)] >>,
                                   tbc |-> adv.tbc]
         [] OTHER -> nothing

\* fault: a regex item whose transition accepts is advanced but not extended
ScanItem_RegexAcceptEndsMatch(G, item, byte) ==
    LET node == NodeOf(G, item)
        nothing == [row |-> << >>, tbc |-> {}]
    IN CASE node.kind = "Terminal" ->
              LET terminal == get_terminal(G, node.id)
                  index == from_state_id_to_index(item.state_id)
              IN IF terminal[index + 1] = byte
                 THEN IF index + 1 # Len(terminal)
                      THEN [row |-> << [item EXCEPT !.state_id = from_index_to_state_id(index + 1)] >>,
                            tbc |-> {}]
                      ELSE advance_item(G, item)
                 ELSE nothing
         [] node.kind = "RegexString" ->
              LET dfa == get_regex(G, node.id)
                  state_id == dfa.next[from_state_id_to_dfa_state_id(item.state_id, dfa.stride2), byte]
                  status == check_dfa_state_status(state_id, dfa)
                  same == [item EXCEPT !.state_id = from_dfa_state_id_to_state_id(state_id, dfa.stride2)]
                  adv == advance_item(G, item)
              IN IF status = "accept" THEN adv
                 ELSE IF status = "reject" THEN nothing
                 ELSE [row |-> <<same>>, tbc |-> {}]
         [] node.kind = "EXCEPT" ->
              LET dfa == get_excepted(G, node.id)
                  sr == from_state_id_to_dfa_state_id_with_r(item.state_id, dfa.stride2)
                  state_id == dfa.next[sr[1], byte]
                  status == check_dfa_state_status(state_id, dfa)
                  r == sr[2]
                  adv == advance_item(G, item)
              IN IF status = "accept" THEN nothing
                 ELSE \* in_progress; a reject is unreachable!() in the source
                        IF r = INVALID_REPETITION
                        THEN [row |-> adv.row \o
                                << [item EXCEPT !.state_id =
                                      from_dfa_state_id_to_state_id(state_id, dfa.stride2)] >>,
                              tbc |-> adv.tbc]
                        ELSE IF r - 1 = INVALID_REPETITION
                             THEN adv
                             ELSE [row |-> adv.row \o
                                     << [item EXCEPT !.state_id =
                                           from_dfa_state_id_to_state_id_with_r(
                                               state_id, dfa.stride2, r - 1)] >>,
                                   tbc |-> adv.tbc]
         [] OTHER -> nothing

\* fault: the in-place continuation of a bounded except item keeps its counter
ScanItem_ExceptKeepsCounter(G, item, byte) ==
    LET node == NodeOf(G, item)
        nothing == [row |-> << >>, tbc |-> {}]
    IN CASE node.kind = "Terminal" ->
              LET terminal == get_terminal(G, node.id)
                  index == from_state_id_to_index(item.state_id)
              IN IF terminal[index + 1] = byte
                 THEN IF index + 1 # Len(terminal)
                      THEN [row |-> << [item EXCEPT !.state_id = from_index_to_state_id(index + 1)] >>,
                            tbc |-> {}]
                      ELSE advance_item(G, item)
                 ELSE nothing
         [] node.kind = "RegexString" ->
              LET dfa == get_regex(G, node.id)
                  state_id == dfa.next[from_state_id_to_dfa_state_id(item.state_id, dfa.stride2), byte]
                  status == check_dfa_state_status(state_id, dfa)
                  same == [item EXCEPT !.state_id = from_dfa_state_id_to_state_id(state_id, dfa.stride2)]
                  adv == advance_item(G, item)
              IN IF status = "accept" THEN [row |-> adv.row \o <<same>>, tbc |-> adv.tbc]
                 ELSE IF status = "reject" THEN nothing
                 ELSE [row |-> <<same>>, tbc |-> {}]
         [] node.kind = "EXCEPT" ->
              LET dfa == get_excepted(G, node.id)
                  sr == from_state_id_to_dfa_state_id_with_r(item.state_id, dfa.stride2)
                  state_id == dfa.next[sr[1], byte]
                  status == check_dfa_state_status(state_id, dfa)
                  r == sr[2]
                  adv == advance_item(G, item)
              IN IF status = "accept" THEN nothing
                 ELSE \* in_progress; a reject is unreachable!() in the source
                        IF r = INVALID_REPETITION
                        THEN [row |-> adv.row \o
                                << [item EXCEPT !.state_id =
                                      from_dfa_state_id_to_state_id(state_id, dfa.stride2)] >>,
                              tbc |-> adv.tbc]
                        ELSE IF r - 1 = INVALID_REPETITION
                             THEN adv
                             ELSE [row |-> adv.row \o
                                     << [item EXCEPT !.state_id =
                                           from_dfa_state_id_to_state_id_with_r(
                                               state_id, dfa.stride2, r)] >>,
                                   tbc |-> adv.tbc]
         [] OTHER -> nothing

\* One iteration of scan's loop: the items pushed to the new row, in order,
\* and the to-be-completed items inserted.
ScanItem(G, item, byte) ==
    LET node == NodeOf(G, item)
        nothing == [row |-> << >>, tbc |-> {}]
    IN CASE node.kind = "Terminal" ->
              LET terminal == get_terminal(G, node.id)
                  index == from_state_id_to_index(item.state_id)
              IN IF terminal[index + 1] = byte
                 THEN IF index + 1 # Len(terminal)
                      THEN [row |-> << [item EXCEPT !.state_id = from_index_to_state_id(index + 1)] >>,
                            tbc |-> {}]
                      ELSE advance_item(G, item)
                 ELSE nothing
         [] node.kind = "RegexString" ->
              LET dfa == get_regex(G, node.id)
                  state_id == dfa.next[from_state_id_to_dfa_state_id(item.state_id, dfa.stride2), byte]
                  status == check_dfa_state_status(state_id, dfa)
                  same == [item EXCEPT !.state_id = from_dfa_state_id_to_state_id(state_id, dfa.stride2)]
                  adv == advance_item(G, item)
              IN IF status = "accept" THEN [row |-> adv.row \o <<same>>, tbc |-> adv.tbc]
                 ELSE IF status = "reject" THEN nothing
                 ELSE [row |-> <<same>>, tbc |-> {}]
         [] node.kind = "EXCEPT" ->
              LET dfa == get_excepted(G, node.id)
                  sr == from_state_id_to_dfa_state_id_with_r(item.state_id, dfa.stride2)
                  state_id == dfa.next[sr[1], byte]
                  status == check_dfa_state_status(state_id, dfa)
                  r == sr[2]
                  adv == advance_item(G, item)
              IN IF status = "accept" THEN nothing
                 ELSE \* in_progress; a reject is unreachable!() in the source
                        IF r = INVALID_REPETITION
                        THEN [row |-> adv.row \o
                                << [item EXCEPT !.state_id =
                                      from_dfa_state_id_to_state_id(state_id, dfa.stride2)] >>,
                              tbc |-> adv.tbc]
                        ELSE IF r - 1 = INVALID_REPETITION
                             THEN adv
                             ELSE [row |-> adv.row \o
                                     << [item EXCEPT !.state_id =
                                           from_dfa_state_id_to_state_id_with_r(
                                               state_id, dfa.stride2, r - 1)] >>,
                                   tbc |-> adv.tbc]
         [] OTHER -> nothing

\* What one iteration (s) adds to what the earlier ones pushed (acc).
Pushed(acc, s) == [row |-> acc.row \o s.row, tbc |-> acc.tbc \cup s.tbc]

RECURSIVE ScanLoop(_, _, _, _, _)
ScanLoop(G, old_row, i, byte, acc) ==
    IF i > Len(old_row) THEN acc
    ELSE ScanLoop(G, old_row, i + 1, byte, Pushed(acc, ScanItem(G, old_row[i], byte)))

\* The engine with the new Earley set r.row appended.
WithScanned(e, r) ==
    [e EXCEPT !.earley_sets = Append(e.earley_sets, r.row),
              !.to_be_completed_items = r.tbc]

\* scan: a new Earley set is appended and filled from the previous last one.
scan(G, e, byte) ==
    WithScanned(e, ScanLoop(G, Last(e.earley_sets), 1, byte,
                            [row |-> << >>, tbc |-> e.to_be_completed_items]))

\* -------------------------------------------------------------- Postdot index
\* The match on postdot_items.entry(postdot): an occupied entry becomes (or
\* stays) NormalItems with the item pushed, a vacant one LeoEligible(item).
\* fault: an occupied entry is overwritten with the new item
IndexItem_OverwritesOccupied(postdot_items, postdot, item) ==
    MapPut(postdot_items, postdot, LeoEligible(item))

IndexItem(postdot_items, postdot, item) ==
    IF postdot \in DOMAIN postdot_items
    THEN [postdot_items EXCEPT ![postdot] = NormalItems(Append(@.items, item))]
    ELSE MapPut(postdot_items, postdot, LeoEligible(item))

RECURSIVE PostdotLoop(_, _, _, _, _, _)
\* The first loop of update_postdot_items over the last Earley set.
PostdotLoop(G, row, i, column, postdot_items, added) ==
    IF i > Len(row) THEN [postdot_items |-> postdot_items, added |-> added]
    ELSE IF NodeOf(G, row[i]).kind # "Nonterminal"
         THEN PostdotLoop(G, row, i + 1, column, postdot_items, added)
         ELSE PostdotLoop(G, row, i + 1, column,
                  IndexItem(postdot_items, Dotted(NodeOf(G, row[i]).id, AsTSP(column)), row[i]),
                  added \cup ({Dotted(NodeOf(G, row[i]).id, AsTSP(column))}
                                 \ DOMAIN postdot_items))

\* The second loop: every LeoEligible entry of the whole map whose item would
\* not be completed by one advance becomes NormalItems([item]).
\* fault: no entry is demoted
DemoteOne_KeepsEligible(G, v) == v

DemoteOne(G, v) ==
    IF /\ v.kind = "LeoEligible"
       /\ ~item_should_be_completed(G, v.items[1].nonterminal_id,
                                    v.items[1].dot_position + 1,
                                    v.items[1].production_index)
    THEN NormalItems(v.items)
    ELSE v

DemoteNonLeo(G, r) ==
    [postdot_items |-> [k \in DOMAIN r.postdot_items |-> DemoteOne(G, r.postdot_items[k])],
     added |-> r.added]

\* fault: the last set is never indexed
update_postdot_items_IndexesNothing(G, earley_sets, postdot_items, added) ==
    [postdot_items |-> postdot_items, added |-> added]

update_postdot_items(G, earley_sets, postdot_items, added) ==
    DemoteNonLeo(G, PostdotLoop(G, Last(earley_sets), 1, Len(earley_sets) - 1,
                                postdot_items, added))

\* --------------------------------------------------------------------- Leo
RECURSIVE LeoWalk(_, _, _)
\* The while loop of try_leo_complete_item: <<topmost item, leo_items_buffer>>.
LeoWalk(postdot_items, topmost_item, buffer) ==
    LET key == Dotted(topmost_item.nonterminal_id, topmost_item.start_position)
    IN IF key \in DOMAIN postdot_items /\ postdot_items[key].kind = "LeoEligible"
       THEN LET leo_item == postdot_items[key].items[1]
            IN LeoWalk(postdot_items,
                       ToBeCompletedItem(leo_item.nonterminal_id, leo_item.start_position),
                       Append(buffer, topmost_item))
       ELSE <<topmost_item, buffer>>

\* found = FALSE is None.  A memo hit returns before the buffer is cleared.
\* What try_leo_complete_item does with the walk w = <<topmost, buffer>>.
LeoMemoize(leo_items, item, w) ==
    IF w[2] = << >>
    THEN [found |-> FALSE, topmost |-> item,
          leo_items |-> leo_items, leo_items_buffer |-> << >>]
    ELSE [found |-> TRUE, topmost |-> w[1],
          leo_items |-> [k \in (DOMAIN leo_items) \cup SeqToSet(w[2]) |->
                            IF k \in SeqToSet(w[2]) THEN w[1] ELSE leo_items[k]],
          leo_items_buffer |-> w[2]]

try_leo_complete_item(leo_items_buffer, leo_items, postdot_items, item) ==
    IF item \in DOMAIN leo_items
    THEN [found |-> TRUE, topmost |-> leo_items[item],
          leo_items |-> leo_items, leo_items_buffer |-> leo_items_buffer]
    ELSE LeoMemoize(leo_items, item, LeoWalk(postdot_items, item, << >>))

\* ---------------------------------------------------------------- Complete
\* What one advance_item (a) adds to the deduplication buffer (row) and to
\* the to-be-completed buffer (tbc).
Advanced(acc, a) == [row |-> acc.row \cup SeqToSet(a.row), tbc |-> acc.tbc \cup a.tbc]

RECURSIVE AdvanceAll(_, _, _, _)
AdvanceAll(G, items, i, acc) ==
    IF i > Len(items) THEN acc
    ELSE AdvanceAll(G, items, i + 1, Advanced(acc, advance_item(G, items[i])))

\* The match on postdot_items.get(&Dotted): NormalItems are advanced, a
\* LeoEligible entry or a missing one advances nothing.
AdvancePostdot(G, postdot_items, key) ==
    IF key \in DOMAIN postdot_items /\ postdot_items[key].kind = "NormalItems"
    THEN AdvanceAll(G, postdot_items[key].items, 1, [row |-> {}, tbc |-> {}])
    ELSE [row |-> {}, tbc |-> {}]

WithAdvanced(c, adv) ==
    [c EXCEPT !.to_be_completed_items_buffer = @ \cup adv.tbc,
              !.deduplication_buffer = @ \cup adv.row]

\* fault: the finished flag is raised only when nothing waits on the start
\* symbol at column 0
earley_complete_one_item_FinishedNeedsNoPostdot(G, to_be_completed_item, c) ==
    WithAdvanced(
        [c EXCEPT !.finished =
            IF /\ get_start_nonterminal_id(G) = to_be_completed_item.nonterminal_id
               /\ to_be_completed_item.start_position = 0
               /\ Dotted(to_be_completed_item.nonterminal_id,
                         to_be_completed_item.start_position) \notin DOMAIN c.postdot_items
            THEN TRUE ELSE @],
        AdvancePostdot(G, c.postdot_items,
                       Dotted(to_be_completed_item.nonterminal_id,
                              to_be_completed_item.start_position)))

\* fault: the origin of the completed start symbol is not looked at
earley_complete_one_item_FinishedAtAnyOrigin(G, to_be_completed_item, c) ==
    WithAdvanced(
        [c EXCEPT !.finished =
            IF get_start_nonterminal_id(G) = to_be_completed_item.nonterminal_id
            THEN TRUE ELSE @],
        AdvancePostdot(G, c.postdot_items,
                       Dotted(to_be_completed_item.nonterminal_id,
                              to_be_completed_item.start_position)))

\* earley_complete_one_item on the record c of complete's working state.
earley_complete_one_item(G, to_be_completed_item, c) ==
    WithAdvanced(
        [c EXCEPT !.finished =
            IF /\ get_start_nonterminal_id(G) = to_be_completed_item.nonterminal_id
               /\ to_be_completed_item.start_position = 0
            THEN TRUE ELSE @],
        AdvancePostdot(G, c.postdot_items,
                       Dotted(to_be_completed_item.nonterminal_id,
                              to_be_completed_item.start_position)))

\* The body of the for loop: the topmost item when the Leo lookup (l) found
\* one, else the item itself, is completed.
CompleteItem(G, item, c, l) ==
    earley_complete_one_item(G, IF l.found THEN l.topmost ELSE item,
                             [c EXCEPT !.leo_items = l.leo_items,
                                       !.leo_items_buffer = l.leo_items_buffer])

RECURSIVE CompleteDrain(_, _, _, _)
\* The for loop over to_be_completed_items.drain().
CompleteDrain(G, pending, i, c) ==
    IF i > Len(pending) THEN c
    ELSE CompleteDrain(G, pending, i + 1,
             CompleteItem(G, pending[i], c,
                          try_leo_complete_item(c.leo_items_buffer, c.leo_items,
                                                c.postdot_items, pending[i])))

\* mem::swap of the (drained) set with its buffer.
SwapBuffers(d) ==
    [d EXCEPT !.to_be_completed_items = d.to_be_completed_items_buffer,
              !.to_be_completed_items_buffer = {}]

RECURSIVE CompleteWhile(_, _)
\* The while loop: drain, then swap the set with the buffer.
CompleteWhile(G, c) ==
    IF c.to_be_completed_items = {} THEN c
    ELSE CompleteWhile(G, SwapBuffers(
             CompleteDrain(G, SetToSeq(c.to_be_completed_items), 1,
                           [c EXCEPT !.to_be_completed_items = {}])))

\* The deduplication buffer is drained into the last Earley set.
DrainDeduplication(c) ==
    [c EXCEPT !.earley_sets[Len(c.earley_sets)] = @ \o SetToSeq(c.deduplication_buffer),
              !.deduplication_buffer = {}]

complete(G, e) ==
    DrainDeduplication(CompleteWhile(G, [e EXCEPT !.to_be_completed_items_buffer = {}]))

\* ------------------------------------------------------------------ rollback
\* fault: the postdot keys added since the last commit stay in the index
revert_change_KeepsPostdot(e, earley_set_length) ==
    [e EXCEPT !.earley_sets = SubSeq(@, 1, earley_set_length),
              !.finished = FALSE,
              !.postdot_items_since_last_commit = {}]

\* fault: the finished flag survives the rollback
revert_change_KeepsFinished(e, earley_set_length) ==
    [e EXCEPT !.earley_sets = SubSeq(@, 1, earley_set_length),
              !.postdot_items = MapRemoveAll(@, e.postdot_items_since_last_commit),
              !.postdot_items_since_last_commit = {}]

revert_change(e, earley_set_length) ==
    [e EXCEPT !.earley_sets = SubSeq(@, 1, earley_set_length),
              !.finished = FALSE,
              !.postdot_items = MapRemoveAll(@, e.postdot_items_since_last_commit),
              !.postdot_items_since_last_commit = {}]

commit_change(e) == [e EXCEPT !.postdot_items_since_last_commit = {}]

\* fault: pending completions are not looked at
is_rejected_LastSetOnly(earley_sets, to_be_completed_items) ==
    Last(earley_sets) = << >>

is_rejected(earley_sets, to_be_completed_items) ==
    Last(earley_sets) = << >> /\ to_be_completed_items = {}

\* ---------------------------------------------------------------- one byte
\* The steps of accept_byte after its rejection test, each on the result of
\* the one before: c is the engine after complete, sets its Earley sets after
\* predict, u what update_postdot_items returns for them.
AcceptByteIndexed(c, sets, u) ==
    [e |-> [c EXCEPT !.earley_sets = sets,
                     !.already_predicted_nonterminals = {},
                     !.postdot_items = u.postdot_items,
                     !.postdot_items_since_last_commit = u.added],
     ok |-> TRUE]

AcceptBytePredicted(G, c, sets) ==
    AcceptByteIndexed(c, sets,
                      update_postdot_items(G, sets, c.postdot_items,
                                           c.postdot_items_since_last_commit))

AcceptByteCompleted(G, c) ==
    AcceptBytePredicted(G, c, predict(G, c.earley_sets, c.already_predicted_nonterminals))

\* s is the engine after scan; a rejected s is returned as scan left it.
AcceptByteScanned(G, s) ==
    IF is_rejected(s.earley_sets, s.to_be_completed_items)
    THEN [e |-> s, ok |-> FALSE]
    ELSE AcceptByteCompleted(G, complete(G, s))

\* The revert_change call on the two rejecting paths of accept_byte.
RevertRejected(r, earley_set_length) ==
    IF r.ok THEN r ELSE [e |-> revert_change(r.e, earley_set_length), ok |-> FALSE]

\* fault: a rejected byte returns without rolling the chart back
accept_byte_NoRollback(G, e, previous_earley_set_length, byte) ==
    IF e.finished
    THEN [e |-> e, ok |-> FALSE]
    ELSE AcceptByteScanned(G, scan(G, e, byte))

\* accept_byte: [e |-> the engine after the call, ok |-> Ok(()) or Err(Rejected)].
accept_byte(G, e, previous_earley_set_length, byte) ==
    IF e.finished
    THEN [e |-> revert_change(e, previous_earley_set_length), ok |-> FALSE]
    ELSE RevertRejected(AcceptByteScanned(G, scan(G, e, byte)), previous_earley_set_length)

\* ------------------------------------------------------------- accept a token
RECURSIVE AcceptBytes(_, _, _, _, _)
RECURSIVE AcceptBytesFrom(_, _, _, _, _)
\* The for loop over the bytes of a token; `?` returns at the first rejection.
AcceptBytes(G, e, len, token, i) ==
    IF i > Len(token) THEN [e |-> e, ok |-> TRUE]
    ELSE AcceptBytesFrom(G, accept_byte(G, e, len, token[i]), len, token, i + 1)

\* The loop from byte i on, r being what accept_byte returned for byte i - 1.
AcceptBytesFrom(G, r, len, token, i) ==
    IF r.ok THEN AcceptBytes(G, r.e, len, token, i) ELSE r

\* fault: an accepted token is reported Ongoing whether or not it finished
TokenResult_ReportsOngoing(r) ==
    IF ~r.ok THEN [e |-> r.e, res |-> "Rejected"]
    ELSE [e |-> commit_change(r.e), res |-> "Ongoing"]

\* The end of try_accept_new_token on the result r of the byte loop.
TokenResult(r) ==
    IF ~r.ok THEN [e |-> r.e, res |-> "Rejected"]
    ELSE [e |-> commit_change(r.e),
          res |-> IF r.e.finished THEN "Finished" ELSE "Ongoing"]

\* fault: the finished check at the top is missing
try_accept_new_token_NoFinishedCheck(G, e, token_id) ==
    IF get_token_from_token_id(token_id) = << >> THEN [e |-> e, res |-> "UnknownTokenID"]
    ELSE TokenResult(AcceptBytes(G, e, Len(e.earley_sets),
                                 get_token_from_token_id(token_id), 1))

\* fault: the vocabulary lookup comes before the finished check
try_accept_new_token_LookupFirst(G, e, token_id) ==
    IF get_token_from_token_id(token_id) = << >> THEN [e |-> e, res |-> "UnknownTokenID"]
    ELSE IF e.finished THEN [e |-> e, res |-> "ErrFinished"]
    ELSE TokenResult(AcceptBytes(G, e, Len(e.earley_sets),
                                 get_token_from_token_id(token_id), 1))

\* try_accept_new_token: [e |-> engine after the call, res |-> its result],
\* res one of Ongoing, Finished (Ok) and ErrFinished, UnknownTokenID, Rejected (Err).
try_accept_new_token(G, e, token_id) ==
    IF e.finished THEN [e |-> e, res |-> "ErrFinished"]
    ELSE IF get_token_from_token_id(token_id) = << >> THEN [e |-> e, res |-> "UnknownTokenID"]
    ELSE TokenResult(AcceptBytes(G, e, Len(e.earley_sets),
                                 get_token_from_token_id(token_id), 1))

IsOk(res) == res \in {"Ongoing", "Finished"}

\* ------------------------------------------------------------ allowed tokens
update_allowed_first_bytes(G, e) ==
    LET row == Last(e.earley_sets)
        hint(item) ==
            LET node == NodeOf(G, item)
            IN CASE node.kind = "Terminal" -> {get_terminal(G, node.id)[1]}
                 [] node.kind = "RegexString" -> get_first_bytes_from_regex(G, node.id)
                 [] node.kind = "EXCEPT" -> get_first_bytes_from_excepted(G, node.id)
                 [] OTHER -> {}
    IN UNION { hint(row[i]) : i \in DOMAIN row }

\* Index of the first NewToken event after position i, 0 when there is none.
NextNewToken(events, i) ==
    IF \E j \in (i + 1) .. Len(events) : events[j].kind = "NewToken"
    THEN CHOOSE j \in (i + 1) .. Len(events) :
            /\ events[j].kind = "NewToken"
            /\ \A k \in (i + 1) .. (j - 1) : events[k].kind # "NewToken"
    ELSE 0

None == -1

\* allowed_token_ids.insert(current_token_id) when there is a current token.
AllowCurrent(v, current_token_id) ==
    IF current_token_id # None
    THEN [v EXCEPT !.allowed_token_ids = @ \cup {current_token_id}]
    ELSE v

RECURSIVE ProbeLoop(_, _, _, _, _, _)
RECURSIVE ProbeByte(_, _, _, _, _, _, _)
\* The 'outer loop over one first-byte subtree of the prefix iterator.
ProbeLoop(G, events, i, len, e, current_token_id) ==
    IF i > Len(events)
    THEN \* end of the iterator: revert the last token's change
         revert_change(e, len)
    ELSE IF events[i].kind = "TokenByte"
         THEN ProbeByte(G, events, i, len, accept_byte(G, e, len, events[i].byte),
                        current_token_id, NextNewToken(events, i))
         ELSE \* NewToken: the token before it was accepted
              ProbeLoop(G, events, i + 1, len,
                        AllowCurrent(revert_change(e, len), current_token_id),
                        events[i].id)

\* The TokenByte arm on the result r of accept_byte: a rejected byte skips to
\* the event after the next NewToken (j), or ends the loop when there is none.
ProbeByte(G, events, i, len, r, current_token_id, j) ==
    IF r.ok THEN ProbeLoop(G, events, i + 1, len, r.e, current_token_id)
    ELSE IF j = 0 THEN r.e
    ELSE ProbeLoop(G, events, j + 1, len, r.e, events[j].id)

RECURSIVE ProbeFirstBytes(_, _, _, _, _)
ProbeFirstBytes(G, first_bytes, k, len, e) ==
    IF k > Len(first_bytes) THEN e
    ELSE ProbeFirstBytes(G, first_bytes, k + 1, len,
            ProbeLoop(G, get_normal_tokens_from_first_byte(first_bytes[k]), 1, len, e, None))

\* The body of the loop over the tokens containing separators: an accepted
\* token (r.ok) is inserted and its change reverted.
AllowAccepted(r, token_id, len) ==
    IF r.ok
    THEN revert_change([r.e EXCEPT !.allowed_token_ids = @ \cup {token_id}], len)
    ELSE r.e

RECURSIVE ProbeSeparators(_, _, _, _, _)
ProbeSeparators(G, ids, k, len, e) ==
    IF k > Len(ids) THEN e
    ELSE ProbeSeparators(G, ids, k + 1, len,
             AllowAccepted(AcceptBytes(G, e, len, VocabTokens[ids[k] + 1], 1), ids[k], len))

\* self.allowed_first_bytes is rebuilt from the last Earley set.
WithAllowedFirstBytes(G, e) ==
    [e EXCEPT !.allowed_first_bytes = update_allowed_first_bytes(G, e)]

\* The loop over allowed_first_bytes.ones().
ProbeAllowedFirstBytes(G, e, len) ==
    ProbeFirstBytes(G, SortedSeq(e.allowed_first_bytes), 1, len, e)

\* fault: with the cache enabled the probe is skipped and the allowed set of
\* the last computation is kept
compute_allowed_token_ids_SkipsProbeWhenCacheEnabled(G, e) ==
    IF e.finished THEN [e EXCEPT !.allowed_token_ids = {}]
    ELSE IF e.config.cache_enabled THEN e
    ELSE commit_change(
             ProbeSeparators(G, get_tokens_containing_separators, 1, Len(e.earley_sets),
                 ProbeAllowedFirstBytes(G,
                     WithAllowedFirstBytes(G, [e EXCEPT !.allowed_token_ids = {}]),
                     Len(e.earley_sets))))

compute_allowed_token_ids(G, e) ==
    IF e.finished THEN [e EXCEPT !.allowed_token_ids = {}]
    ELSE commit_change(
             ProbeSeparators(G, get_tokens_containing_separators, 1, Len(e.earley_sets),
                 ProbeAllowedFirstBytes(G,
                     WithAllowedFirstBytes(G, [e EXCEPT !.allowed_token_ids = {}]),
                     Len(e.earley_sets))))

\* --------------------------------------------------------------------- reset
\* The fields after reset, sets being the Earley sets after predict.
ResetFields(G, e, sets) ==
    [e EXCEPT !.earley_sets = sets,
              !.to_be_completed_items = {},
              !.to_be_completed_items_buffer = {},
              !.leo_items = EmptyMap,
              !.leo_items_buffer = << >>,
              !.postdot_items = update_postdot_items(G, sets, EmptyMap, {}).postdot_items,
              !.postdot_items_since_last_commit = {},
              !.already_predicted_nonterminals = {},
              !.finished = FALSE,
              !.allowed_token_ids = {},
              !.allowed_first_bytes = {}]

\* fault: the first set is left as predict_nonterminal made it
PredictStart_NoClosure(G, p) == <<p.row>>

\* predict on the set p.row that predict_nonterminal made for the start symbol.
PredictStart(G, p) == predict(G, <<p.row>>, p.already)

\* fault: the Leo memo survives the reset
reset_KeepsLeoMemo(G, e) ==
    [ResetFields(G, e,
        PredictStart(G, predict_nonterminal(G, << >>, {}, get_start_nonterminal_id(G), 0)))
     EXCEPT !.leo_items = e.leo_items]

reset(G, e) ==
    ResetFields(G, e,
        PredictStart(G, predict_nonterminal(G, << >>, {}, get_start_nonterminal_id(G), 0)))

\* ------------------------------------------------------------------- logits
\* A logit is a finite number or f32::NEG_INFINITY.
Finite(v) == [neg_infinity |-> FALSE, v |-> v]
NEG_INFINITY == [neg_infinity |-> TRUE, v |-> 0]

\* fault: position i is tested against token id i, one past its own
mask_logits_OffByOne(e, logits) ==
    IF Len(logits) # get_vocab_size
    THEN [logits |-> logits, res |-> "InvalidLogitsLength"]
    ELSE [logits |-> [i \in 1 .. Len(logits) |->
                        IF i \notin e.allowed_token_ids THEN NEG_INFINITY
                        ELSE logits[i]],
          res |-> "Ok"]

\* mask_logits: [logits |-> the slice after the call, res |-> Ok or the error].
mask_logits(e, logits) ==
    IF Len(logits) # get_vocab_size
    THEN [logits |-> logits, res |-> "InvalidLogitsLength"]
    ELSE [logits |-> [i \in 1 .. Len(logits) |->
                        IF (i - 1) \notin e.allowed_token_ids THEN NEG_INFINITY
                        ELSE logits[i]],
          res |-> "Ok"]

\* The end of update_logits on the engine e after compute_allowed_token_ids
\* and the result m of mask_logits.
UpdateLogitsMasked(e, m) ==
    IF m.res # "Ok"
    THEN [e |-> e, logits |-> m.logits, res |-> m.res]
    ELSE [e |-> e, logits |-> m.logits, res |-> "Ongoing"]

UpdateLogitsComputed(e, logits) == UpdateLogitsMasked(e, mask_logits(e, logits))

\* update_logits after its try_accept_new_token call returned a: `?` returns
\* the error, mapped to the UpdateLogitsError of the same name.
UpdateLogitsAccepted(G, a, logits) ==
    IF ~IsOk(a.res)
    THEN [e |-> a.e, logits |-> logits, res |-> a.res]
    ELSE UpdateLogitsComputed(compute_allowed_token_ids(G, a.e), logits)

\* update_logits: [e |-> engine after, logits |-> slice after, res |-> result].
update_logits(G, e, token_id, logits) ==
    UpdateLogitsAccepted(G, try_accept_new_token(G, e, token_id), logits)

\* ------------------------------------------------------------- construction
\* EngineConfig; both options are on by default.
EngineConfigs == [cache_enabled : BOOLEAN, compaction_enabled : BOOLEAN]
DefaultEngineConfig == [cache_enabled |-> TRUE, compaction_enabled |-> TRUE]

\* EngineBase::new: the fields as constructed, then reset().
NewEngine(G, config) ==
    reset(G, [earley_sets |-> << >>,
              cache |-> EmptyMap,
              config |-> config,
              to_be_completed_items |-> {},
              to_be_completed_items_buffer |-> {},
              deduplication_buffer |-> {},
              postdot_items |-> EmptyMap,
              postdot_items_since_last_commit |-> {},
              leo_items |-> EmptyMap,
              leo_items_buffer |-> << >>,
              already_predicted_nonterminals |-> {},
              finished |-> FALSE,
              allowed_first_bytes |-> {},
              allowed_token_ids |-> {}])

\* EngineBase::new, the checks before the fields are built: the first
\* object that its sub-state word cannot hold, or Ok.
validate_ts_size_for_terminals(G) ==
    IF \E i \in DOMAIN G.terminals : Len(G.terminals[i]) > Pow2(STATE_ID_TYPE_BIT) - 1
    THEN "TerminalTooLong" ELSE "Ok"

validate_ts_size_for_regexes(G) ==
    IF \E i \in DOMAIN G.regexes : G.regexes[i].len > Pow2(STATE_ID_TYPE_BIT) - 1
    THEN "RegexTooLarge" ELSE "Ok"

\* fault: an automaton of one state more is let through
validate_ts_size_for_excepted_AllowsOneMore(G) ==
    IF \E i \in DOMAIN G.rules : \E j \in DOMAIN G.rules[i] : \E k \in DOMAIN G.rules[i][j] :
          /\ G.rules[i][j][k].kind = "EXCEPT"
          /\ G.excepteds[G.rules[i][j][k].id + 1].len
                > Pow2(STATE_ID_TYPE_BIT - EXCEPTED_ID_TYPE_BIT)
    THEN "ExceptedTooLarge" ELSE "Ok"

validate_ts_size_for_excepted(G) ==
    IF \E i \in DOMAIN G.rules : \E j \in DOMAIN G.rules[i] : \E k \in DOMAIN G.rules[i][j] :
          /\ G.rules[i][j][k].kind = "EXCEPT"
          /\ G.excepteds[G.rules[i][j][k].id + 1].len
                > Pow2(STATE_ID_TYPE_BIT - EXCEPTED_ID_TYPE_BIT) - 1
    THEN "ExceptedTooLarge" ELSE "Ok"

\* The `?` chain of EngineBase::new.
EngineBase_new(G) ==
    IF validate_ts_size_for_terminals(G) # "Ok" THEN validate_ts_size_for_terminals(G)
    ELSE IF validate_ts_size_for_regexes(G) # "Ok" THEN validate_ts_size_for_regexes(G)
    ELSE validate_ts_size_for_excepted(G)

\* =================================================================== state
VARIABLES
    g,                  \* index of the grammar the engine was built with
    engine,             \* the EngineBase fields (record, see NewEngine)
    accepted_bytes,     \* bytes of the tokens accepted since the last reset
    last_call,          \* the last call made and what it returned
    fresh_feed,         \* every call since construction or the last reset was
                        \* a try_accept_new_token that returned Ok
    logits,             \* the slice the last call was given (passed) and as the
                        \* call left it (left); NoLogits when it took none
    feed,               \* where a try_accept_new_token that is run phase by
                        \* phase stands; NoFeed when calls are run whole
    construction        \* the arguments EngineBase::new and the sub-state
                        \* packing were given and what they returned;
                        \* NoConstruction once the engine exists

vars == <<g, engine, accepted_bytes, last_call, fresh_feed, logits, facade, feed,
         construction>>

Grammar == Grammars[g]

Call(op, token_id, res) == [op |-> op, token_id |-> token_id, res |-> res]

NoLogits == [passed |-> << >>, left |-> << >>]
NoDimensions == [terminals |-> 0, nonterminals |-> 0, excepteds |-> 0,
                 max_r |-> 0, td |-> 0, tp |-> 0, tsp |-> 0, ts |-> 0]
NoFacade == [dimensions |-> NoDimensions, union |-> "None"]
NoConstruction == [op |-> "built"]
\* No call in progress: phase is where the call stands, pending the bytes of
\* the token not yet accepted, len the length of the chart when the call
\* began, before the engine and trace the phases run since accept_byte was
\* last entered.
NoFeed == [phase |-> "idle", token_id |-> None, pending |-> << >>, len |-> 0,
           before |-> << >>, trace |-> << >>]

InitWith(ids) ==
    /\ g \in ids
    /\ facade = NoFacade
    /\ engine = NewEngine(Grammars[g], DefaultEngineConfig)
    /\ accepted_bytes = << >>
    /\ last_call = Call("new", None, "None")
    /\ fresh_feed = TRUE
    /\ logits = NoLogits
    /\ feed = NoFeed
    /\ construction = NoConstruction

Init == InitWith(GrammarIds)

\* The chart holds at most ByteCap(g) bytes.  The grammars whose automaton
\* takes every body byte (5, 6, 11) have one byte less: every byte string is a
\* history of its own there.
ByteCap(gi) == IF gi \in {5, 6, 11} THEN MaxBytes - 1 ELSE MaxBytes

\* What the call leaves behind, r being [e, res] of try_accept_new_token.
Returned(token_id, r) ==
    /\ Len(r.e.earley_sets) - 1 <= ByteCap(g)
    /\ engine' = r.e
    /\ last_call' = Call("try_accept_new_token", token_id, r.res)
    /\ accepted_bytes' = IF IsOk(r.res)
                         THEN accepted_bytes \o get_token_from_token_id(token_id)
                         ELSE accepted_bytes
    /\ fresh_feed' = (fresh_feed /\ IsOk(r.res))
    /\ logits' = NoLogits

\* EngineLike::try_accept_new_token(token_id)
AcceptToken(token_id) ==
    /\ Returned(token_id, try_accept_new_token(Grammar, engine, token_id))
    /\ UNCHANGED <<g, construction, facade, feed>>

\* EngineLike::compute_allowed_token_ids()
ComputeAllowedTokenIds ==
    /\ engine' = compute_allowed_token_ids(Grammar, engine)
    /\ last_call' = Call("compute_allowed_token_ids", None, "None")
    /\ fresh_feed' = FALSE
    /\ logits' = NoLogits
    /\ UNCHANGED <<g, construction, accepted_bytes, facade, feed>>

\* EngineLike::reset()
Reset ==
    /\ engine' = reset(Grammar, engine)
    /\ last_call' = Call("reset", None, "None")
    /\ accepted_bytes' = << >>
    /\ fresh_feed' = TRUE
    /\ logits' = NoLogits
    /\ UNCHANGED <<g, construction, facade, feed>>

Next ==
    \/ \E token_id \in TokenIdInputs : AcceptToken(token_id)
    \/ ComputeAllowedTokenIds
    \/ Reset

Spec == Init /\ [][Next]_vars

\* ------------------------------------------------- the calls that take logits
\* The slices a caller passes: of the vocabulary's size (all finite, or with
\* positions already at -infinity), one position short and one too long.
LogitsInputs ==
    { [i \in 1 .. get_vocab_size |-> Finite(i)],
      [i \in 1 .. get_vocab_size |-> IF i % 2 = 0 THEN NEG_INFINITY ELSE Finite(0)],
      [i \in 1 .. get_vocab_size - 1 |-> Finite(i)],
      [i \in 1 .. get_vocab_size + 1 |-> Finite(i)] }

\* EngineLike::mask_logits(logits): the engine is not changed (&self).
MaskLogits(passed) ==
    /\ logits' = [passed |-> passed, left |-> mask_logits(engine, passed).logits]
    /\ last_call' = Call("mask_logits", None, mask_logits(engine, passed).res)
    /\ fresh_feed' = FALSE
    /\ UNCHANGED <<g, construction, engine, accepted_bytes, facade, feed>>

\* What update_logits leaves behind, r being what it returned.
Updated(token_id, passed, r) ==
    /\ Len(r.e.earley_sets) - 1 <= ByteCap(g)
    /\ engine' = r.e
    /\ logits' = [passed |-> passed, left |-> r.logits]
    /\ last_call' = Call("update_logits", token_id, r.res)
    /\ accepted_bytes' = IF Len(r.e.earley_sets) > Len(engine.earley_sets)
                         THEN accepted_bytes \o get_token_from_token_id(token_id)
                         ELSE accepted_bytes
    /\ fresh_feed' = FALSE

\* EngineLike::update_logits(token_id, logits)
UpdateLogits(token_id, passed) ==
    /\ Updated(token_id, passed, update_logits(Grammar, engine, token_id, passed))
    /\ UNCHANGED <<g, construction, facade, feed>>

\* The grammars the calls with logits are explored on.
LogitsGrammarIds == {1, 2, 9, 10}

NextLogits ==
    \/ Next
    \/ \E passed \in LogitsInputs : MaskLogits(passed)
    \/ \E token_id \in TokenIdInputs, passed \in LogitsInputs : UpdateLogits(token_id, passed)

SpecLogits == InitWith(LogitsGrammarIds) /\ [][NextLogits]_vars

\* ------------------------------------------------- one token, phase by phase
\* try_accept_new_token run statement by statement: the byte loop, and in
\* accept_byte the calls of scan, complete (one round of its while loop at a
\* time), predict and update_postdot_items.
Phase(name) == Append(feed.trace, name)

\* try_accept_new_token up to its byte loop.
BeginToken(token_id) ==
    /\ feed.phase = "idle"
    /\ Len(engine.earley_sets) - 1 + Len(get_token_from_token_id(token_id)) <= ByteCap(g)
    /\ IF engine.finished \/ get_token_from_token_id(token_id) = << >>
       THEN /\ last_call' = Call("try_accept_new_token", token_id,
                                 IF engine.finished THEN "ErrFinished"
                                 ELSE "UnknownTokenID")
            /\ fresh_feed' = FALSE
            /\ feed' = [NoFeed EXCEPT !.token_id = token_id]
       ELSE /\ feed' = [phase |-> "byte", token_id |-> token_id,
                        pending |-> get_token_from_token_id(token_id),
                        len |-> Len(engine.earley_sets),
                        before |-> engine, trace |-> << >>]
            /\ UNCHANGED <<last_call, fresh_feed>>
    /\ UNCHANGED <<g, construction, engine, accepted_bytes, logits, facade>>

\* accept_byte up to the return of scan; a finished engine is reverted and
\* the byte rejected before scan is called.
ScanPhase ==
    /\ feed.phase = "byte"
    /\ IF engine.finished
       THEN /\ engine' = revert_change(engine, feed.len)
            /\ feed' = [feed EXCEPT !.phase = "idle", !.before = engine, !.trace = << >>]
            /\ last_call' = Call("try_accept_new_token", feed.token_id, "Rejected")
            /\ fresh_feed' = FALSE
       ELSE /\ engine' = scan(Grammar, engine, Head(feed.pending))
            /\ feed' = [feed EXCEPT !.phase = "scanned", !.before = engine,
                                    !.trace = <<"Scan">>]
            /\ UNCHANGED <<last_call, fresh_feed>>
    /\ UNCHANGED <<g, construction, accepted_bytes, logits, facade>>

\* is_rejected after scan: revert_change and Err(Rejected).
RejectScanned ==
    /\ feed.phase = "scanned"
    /\ is_rejected(engine.earley_sets, engine.to_be_completed_items)
    /\ engine' = revert_change(engine, feed.len)
    /\ feed' = [feed EXCEPT !.phase = "idle"]
    /\ last_call' = Call("try_accept_new_token", feed.token_id, "Rejected")
    /\ fresh_feed' = FALSE
    /\ UNCHANGED <<g, construction, accepted_bytes, logits, facade>>

\* complete is entered: to_be_completed_items_buffer.clear().
BeginComplete ==
    /\ feed.phase = "scanned"
    /\ ~is_rejected(engine.earley_sets, engine.to_be_completed_items)
    /\ engine' = [engine EXCEPT !.to_be_completed_items_buffer = {}]
    /\ feed' = [feed EXCEPT !.phase = "completing", !.trace = Phase("Complete")]
    /\ UNCHANGED <<g, construction, accepted_bytes, last_call, fresh_feed, logits, facade>>

\* One turn of complete's while loop: the pending set is drained and
\* swapped with its buffer.
CompleteRound ==
    /\ feed.phase = "completing"
    /\ engine.to_be_completed_items # {}
    /\ engine' = SwapBuffers(CompleteDrain(Grammar, SetToSeq(engine.to_be_completed_items), 1,
                                           [engine EXCEPT !.to_be_completed_items = {}]))
    /\ UNCHANGED <<g, construction, accepted_bytes, last_call, fresh_feed, logits, facade, feed>>

\* The while loop is left: the deduplication buffer is drained.
EndComplete ==
    /\ feed.phase = "completing"
    /\ engine.to_be_completed_items = {}
    /\ engine' = DrainDeduplication(engine)
    /\ feed' = [feed EXCEPT !.phase = "completed"]
    /\ UNCHANGED <<g, construction, accepted_bytes, last_call, fresh_feed, logits, facade>>

\* fault: predict is called on what scan left, before complete
PredictPhase_BeforeComplete ==
    /\ feed.phase = "scanned"
    /\ ~is_rejected(engine.earley_sets, engine.to_be_completed_items)
    /\ engine' = [engine EXCEPT
                     !.earley_sets = predict(Grammar, engine.earley_sets,
                                             engine.already_predicted_nonterminals),
                     !.already_predicted_nonterminals = {}]
    /\ feed' = [feed EXCEPT !.phase = "predicted", !.trace = Phase("Predict")]
    /\ UNCHANGED <<g, construction, accepted_bytes, last_call, fresh_feed, logits, facade>>

\* predict on the last Earley set.
PredictPhase ==
    /\ feed.phase = "completed"
    /\ engine' = [engine EXCEPT
                     !.earley_sets = predict(Grammar, engine.earley_sets,
                                             engine.already_predicted_nonterminals),
                     !.already_predicted_nonterminals = {}]
    /\ feed' = [feed EXCEPT !.phase = "predicted", !.trace = Phase("Predict")]
    /\ UNCHANGED <<g, construction, accepted_bytes, last_call, fresh_feed, logits, facade>>

\* The engine after update_postdot_items returned u.
Indexed(e, u) ==
    [e EXCEPT !.postdot_items = u.postdot_items,
              !.postdot_items_since_last_commit = u.added]

\* The byte loop after accept_byte returned Ok with the engine e: the next
\* byte, or commit_change and the result of the token.
ByteAccepted(e) ==
    /\ IF Len(feed.pending) > 1
       THEN /\ engine' = e
            /\ feed' = [feed EXCEPT !.phase = "byte", !.pending = Tail(@),
                                    !.trace = Phase("Postdot")]
            /\ UNCHANGED <<accepted_bytes, last_call, fresh_feed>>
       ELSE /\ engine' = commit_change(e)
            /\ feed' = [feed EXCEPT !.phase = "idle", !.pending = << >>,
                                    !.trace = Phase("Postdot")]
            /\ last_call' = Call("try_accept_new_token", feed.token_id,
                                 IF e.finished THEN "Finished" ELSE "Ongoing")
            /\ accepted_bytes' = accepted_bytes \o get_token_from_token_id(feed.token_id)
            /\ UNCHANGED fresh_feed

\* update_postdot_items, and accept_byte returns Ok(()).
PostdotPhase ==
    /\ feed.phase = "predicted"
    /\ ByteAccepted(Indexed(engine,
           update_postdot_items(Grammar, engine.earley_sets, engine.postdot_items,
                                engine.postdot_items_since_last_commit)))
    /\ UNCHANGED <<g, construction, logits, facade>>

PhaseGrammarIds == {2, 9, 10, 12} \cup CyclicGrammarIds

NextPhases ==
    \/ \E token_id \in TokenIdInputs : BeginToken(token_id)
    \/ ScanPhase
    \/ RejectScanned
    \/ BeginComplete
    \/ CompleteRound
    \/ EndComplete
    \/ PredictPhase
    \/ PostdotPhase

SpecPhases == InitWith(PhaseGrammarIds) /\ [][NextPhases]_vars

\* A call that has begun runs on: no statement of accept_byte waits.
RunsOn ==
    ScanPhase \/ RejectScanned \/ BeginComplete \/ CompleteRound
        \/ EndComplete \/ PredictPhase \/ PostdotPhase

SpecPhasesRunning == SpecPhases /\ WF_vars(RunsOn)

\* --------------------------------------- one probe, iterator event by event
\* compute_allowed_token_ids run statement by statement: len is the snapshot
\* length, first_bytes the allowed first bytes still to probe, events and i
\* the prefix iterator of the subtree under way and its position,
\* current_token_id the local of that name, ids the tokens containing
\* separators still to probe and pending the bytes of the first of them not
\* yet fed.
Probing(phase, e) ==
    [phase |-> phase, len |-> Len(e.earley_sets), before |-> e,
     first_bytes |-> << >>, events |-> << >>, i |-> 1, current_token_id |-> None,
     ids |-> << >>, pending |-> << >>]

\* compute_allowed_token_ids up to its first loop.
BeginProbe ==
    /\ feed.phase = "idle"
    /\ IF engine.finished
       THEN /\ engine' = [engine EXCEPT !.allowed_token_ids = {}]
            /\ last_call' = Call("compute_allowed_token_ids", None, "None")
            /\ fresh_feed' = FALSE
            /\ feed' = NoFeed
       ELSE /\ engine' = WithAllowedFirstBytes(Grammar, [engine EXCEPT !.allowed_token_ids = {}])
            /\ feed' = [Probing("subtrees", engine) EXCEPT
                            !.first_bytes = SortedSeq(engine'.allowed_first_bytes)]
            /\ UNCHANGED <<last_call, fresh_feed>>
    /\ UNCHANGED <<g, construction, accepted_bytes, logits, facade>>

\* The next allowed first byte: its token iterator, no current token.
BeginSubtree ==
    /\ feed.phase = "subtrees"
    /\ feed.first_bytes # << >>
    /\ feed' = [feed EXCEPT !.phase = "events",
                            !.events = get_normal_tokens_from_first_byte(Head(feed.first_bytes)),
                            !.i = 1,
                            !.current_token_id = None,
                            !.first_bytes = Tail(@)]
    /\ UNCHANGED <<g, construction, engine, accepted_bytes, last_call, fresh_feed, logits, facade>>

\* The TokenByte arm: accept_byte, and on a rejection the skip to the token
\* after the next NewToken, or out of the loop when there is none.
ProbeTokenByte ==
    /\ feed.phase = "events"
    /\ feed.i <= Len(feed.events)
    /\ feed.events[feed.i].kind = "TokenByte"
    /\ LET r == accept_byte(Grammar, engine, feed.len, feed.events[feed.i].byte)
           j == NextNewToken(feed.events, feed.i)
       IN /\ engine' = r.e
          /\ feed' = IF r.ok THEN [feed EXCEPT !.i = @ + 1]
                     ELSE IF j = 0 THEN [feed EXCEPT !.phase = "subtrees"]
                     ELSE [feed EXCEPT !.i = j + 1,
                                       !.current_token_id = feed.events[j].id]
    /\ UNCHANGED <<g, construction, accepted_bytes, last_call, fresh_feed, logits, facade>>

\* fault: the chart an accepted token left is not reverted
ProbeNewToken_NoRevert ==
    /\ feed.phase = "events"
    /\ feed.i <= Len(feed.events)
    /\ feed.events[feed.i].kind = "NewToken"
    /\ engine' = AllowCurrent(engine, feed.current_token_id)
    /\ feed' = [feed EXCEPT !.i = @ + 1,
                            !.current_token_id = feed.events[feed.i].id]
    /\ UNCHANGED <<g, construction, accepted_bytes, last_call, fresh_feed, logits, facade>>

\* The NewToken arm: the token before it was accepted.
ProbeNewToken ==
    /\ feed.phase = "events"
    /\ feed.i <= Len(feed.events)
    /\ feed.events[feed.i].kind = "NewToken"
    /\ engine' = AllowCurrent(revert_change(engine, feed.len), feed.current_token_id)
    /\ feed' = [feed EXCEPT !.i = @ + 1,
                            !.current_token_id = feed.events[feed.i].id]
    /\ UNCHANGED <<g, construction, accepted_bytes, last_call, fresh_feed, logits, facade>>

\* The end of the token iterator: the last token's change is reverted.
EndSubtree ==
    /\ feed.phase = "events"
    /\ feed.i > Len(feed.events)
    /\ engine' = revert_change(engine, feed.len)
    /\ feed' = [feed EXCEPT !.phase = "subtrees"]
    /\ UNCHANGED <<g, construction, accepted_bytes, last_call, fresh_feed, logits, facade>>

\* The tokens containing separators from ids on, the first one unfed.
Separators(ids) ==
    [feed EXCEPT !.phase = "separators",
                 !.ids = ids,
                 !.pending = IF ids = << >> THEN << >> ELSE VocabTokens[Head(ids) + 1]]

\* The first loop is left.
BeginSeparators ==
    /\ feed.phase = "subtrees"
    /\ feed.first_bytes = << >>
    /\ feed' = Separators(get_tokens_containing_separators)
    /\ UNCHANGED <<g, construction, engine, accepted_bytes, last_call, fresh_feed, logits, facade>>

\* One byte of a token containing a separator; after its last byte the
\* token is inserted and its change reverted.
SeparatorByte ==
    /\ feed.phase = "separators"
    /\ feed.ids # << >>
    /\ LET r == accept_byte(Grammar, engine, feed.len, Head(feed.pending))
       IN IF r.ok /\ Len(feed.pending) > 1
          THEN /\ engine' = r.e
               /\ feed' = [feed EXCEPT !.pending = Tail(@)]
          ELSE /\ engine' = AllowAccepted(r, Head(feed.ids), feed.len)
               /\ feed' = Separators(Tail(feed.ids))
    /\ UNCHANGED <<g, construction, accepted_bytes, last_call, fresh_feed, logits, facade>>

\* commit_change, and compute_allowed_token_ids returns.
EndProbe ==
    /\ feed.phase = "separators"
    /\ feed.ids = << >>
    /\ engine' = commit_change(engine)
    /\ last_call' = Call("compute_allowed_token_ids", None, "None")
    /\ fresh_feed' = FALSE
    /\ feed' = NoFeed
    /\ UNCHANGED <<g, construction, accepted_bytes, logits, facade>>

\* A token is accepted between two probes.
AcceptTokenBetween(token_id) ==
    /\ feed.phase = "idle"
    /\ AcceptToken(token_id)

ProbeGrammarIds == {3, 6, 9, 10}

NextProbe ==
    \/ \E token_id \in TokenIdInputs : AcceptTokenBetween(token_id)
    \/ BeginProbe
    \/ BeginSubtree
    \/ ProbeTokenByte
    \/ ProbeNewToken
    \/ EndSubtree
    \/ BeginSeparators
    \/ SeparatorByte
    \/ EndProbe

SpecProbe == InitWith(ProbeGrammarIds) /\ [][NextProbe]_vars

\* --------------------------------------------------------- Engine::with_config
\* The bit counts a dimension is drawn from: at and just past each limit.
IdBits == {U8_BITS, U16_BITS, U16_BITS + 1}
RepetitionBits == {ZERO_BITS, U8_BITS, U8_BITS + 1, U16_BITS, U16_BITS + 1}
DotBits == {U8_BITS, U16_BITS, U16_BITS + 1}
ProductionBits == {U8_BITS, U16_BITS, U32_BITS, U32_BITS + 1}
StateBits == {U16_BITS, U32_BITS, U32_BITS + 1}

DimensionInputs ==
    [terminals : IdBits, nonterminals : IdBits, excepteds : IdBits,
     max_r : RepetitionBits, td : DotBits, tp : ProductionBits,
     tsp : ProductionBits, ts : StateBits]

\* Before Engine::with_config has run on the dimensions d.
InitWidths ==
    /\ g = 1
    /\ \E d \in DimensionInputs : facade = [dimensions |-> d, union |-> "None"]
    /\ engine = NewEngine(Grammars[g], DefaultEngineConfig)
    /\ accepted_bytes = << >>
    /\ last_call = Call("new", None, "None")
    /\ fresh_feed = TRUE
    /\ logits = NoLogits
    /\ feed = NoFeed
    /\ construction = NoConstruction

\* Engine::with_config: the width dispatch on the dimensions.
WithConfigCall ==
    /\ facade.union = "None"
    /\ facade' = [facade EXCEPT !.union = with_config(facade.dimensions)]
    /\ UNCHANGED <<g, construction, engine, accepted_bytes, last_call, fresh_feed, logits, feed>>

NextWidths == WithConfigCall

SpecWidths == InitWidths /\ [][NextWidths]_vars

\* --------------------------------------------- an output longer than expected
\* The nested-braces grammar behind the facade, with a config whose
\* expected_output_length fits u8.
OutputGrammarIds == {4}
ExpectedOutputDimensions ==
    [terminals |-> U8_BITS, nonterminals |-> U8_BITS, excepteds |-> U8_BITS,
     max_r |-> ZERO_BITS, td |-> U8_BITS, tp |-> U8_BITS, tsp |-> U8_BITS,
     ts |-> U16_BITS]

\* Engine::with_config has chosen the variant and built its EngineBase.
InitOutput ==
    /\ g \in OutputGrammarIds
    /\ facade = [dimensions |-> ExpectedOutputDimensions,
                 union |-> with_config(ExpectedOutputDimensions)]
    /\ engine = NewEngine(Grammars[g], DefaultEngineConfig)
    /\ accepted_bytes = << >>
    /\ last_call = Call("new", None, "None")
    /\ fresh_feed = TRUE
    /\ logits = NoLogits
    /\ feed = NoFeed
    /\ construction = NoConstruction

\* The chart holds at most OutputCap bytes.
OutputCap == Pow2(START_POSITION_TYPE_BIT) + MaxOverrun

\* The token ids the caller passes: "{" until the chart has more sets than
\* an origin counts, any id from then on.
OutputTokenIds ==
    IF Len(engine.earley_sets) - 1 < Pow2(START_POSITION_TYPE_BIT)
    THEN {id \in 0 .. (get_vocab_size - 1) : VocabTokens[id + 1] = <<123>>}
    ELSE TokenIdInputs

\* EngineLike::try_accept_new_token(token_id) through the facade: the façade
\* hands the call to the EngineBase of its variant.
AcceptOutputToken(token_id) ==
    LET r == try_accept_new_token(Grammar, engine, token_id)
    IN /\ Len(r.e.earley_sets) - 1 <= OutputCap
       /\ engine' = r.e
       /\ last_call' = Call("try_accept_new_token", token_id, r.res)
       /\ accepted_bytes' = IF IsOk(r.res)
                            THEN accepted_bytes \o get_token_from_token_id(token_id)
                            ELSE accepted_bytes
       /\ fresh_feed' = (fresh_feed /\ IsOk(r.res))
       /\ logits' = NoLogits
       /\ UNCHANGED <<g, construction, facade, feed>>

NextOutput == \E token_id \in OutputTokenIds : AcceptOutputToken(token_id)

SpecOutput == InitOutput /\ [][NextOutput]_vars

\* ------------------------------------- EngineBase::new and the sub-state word
\* An automaton of n states, of which EngineBase::new reads the state count
\* only: 0 the dead state, 1 the start state.
SizedDfa(n, stride2) ==
    [ stride2 |-> stride2,
      start   |-> 1 * Pow2(stride2),
      len     |-> n ]

\* start ::= 'a..a' #"a..a" except!('a..a') with a terminal of z.t bytes, a
\* regex automaton of z.rx states and an except automaton of z.ex states;
\* z.ex = 0 leaves the except node out.
SizedGrammar(z) ==
    [ start |-> 0,
      rules |-> << << <<Terminal(0), RegexString(0)>>
                       \o (IF z.ex = 0 THEN << >> ELSE <<EXCEPT_(0, INVALID_REPETITION)>>) >> >>,
      terminals |-> << [i \in 1 .. z.t |-> 97] >>,
      regexes |-> <<SizedDfa(z.rx, z.stride2)>>,
      excepteds |-> IF z.ex = 0 THEN NoDfas ELSE <<SizedDfa(z.ex, z.stride2)>> ]

\* Sizes at and just past the limit of each check.
SizeInputs ==
    [t : {1, Pow2(STATE_ID_TYPE_BIT) - 1, Pow2(STATE_ID_TYPE_BIT)},
     rx : {3, Pow2(STATE_ID_TYPE_BIT) - 1, Pow2(STATE_ID_TYPE_BIT)},
     ex : {0, 4, Pow2(STATE_ID_TYPE_BIT - EXCEPTED_ID_TYPE_BIT) - 1,
           Pow2(STATE_ID_TYPE_BIT - EXCEPTED_ID_TYPE_BIT),
           Pow2(STATE_ID_TYPE_BIT - EXCEPTED_ID_TYPE_BIT) + 1},
     stride2 : {1, 3}]

\* State indices and repetition counts at both ends of their ranges; the
\* index 2^(W-E) is one that no accepted automaton has.
StateIndexInputs ==
    {0, 1, Pow2(STATE_ID_TYPE_BIT - EXCEPTED_ID_TYPE_BIT) - 2,
     Pow2(STATE_ID_TYPE_BIT - EXCEPTED_ID_TYPE_BIT) - 1,
     Pow2(STATE_ID_TYPE_BIT - EXCEPTED_ID_TYPE_BIT)}
RepetitionInputs ==
    {INVALID_REPETITION, 1, Pow2(EXCEPTED_ID_TYPE_BIT) - 2, Pow2(EXCEPTED_ID_TYPE_BIT) - 1}

\* Before EngineBase::new has run on the grammar of sizes z, and before the
\* state of index s of its automata has been packed with the count r.
InitNew ==
    /\ g = 1
    /\ facade = NoFacade
    /\ engine = NewEngine(Grammars[g], DefaultEngineConfig)
    /\ accepted_bytes = << >>
    /\ last_call = Call("new", None, "None")
    /\ fresh_feed = TRUE
    /\ logits = NoLogits
    /\ feed = NoFeed
    /\ \E z \in SizeInputs : \E s \in StateIndexInputs : \E r \in RepetitionInputs :
          construction = [op |-> "none", sizes |-> z, res |-> "None",
                          state_id |-> s * Pow2(z.stride2), r |-> r,
                          word |-> None, unpacked |-> << >>]

\* EngineBase::new up to its last check.
NewCall ==
    /\ construction.op # "built"
    /\ construction.res = "None"
    /\ construction' = [construction EXCEPT
                           !.op = "new",
                           !.res = EngineBase_new(SizedGrammar(construction.sizes))]
    /\ UNCHANGED <<g, engine, accepted_bytes, last_call, fresh_feed, logits, facade, feed>>

\* from_dfa_state_id_to_state_id_with_r(state_id, stride2, r)
PackCall ==
    /\ construction.op # "built"
    /\ construction.word = None
    /\ construction' = [construction EXCEPT
                           !.op = "pack",
                           !.word = from_dfa_state_id_to_state_id_with_r(
                                        construction.state_id, construction.sizes.stride2,
                                        construction.r)]
    /\ UNCHANGED <<g, engine, accepted_bytes, last_call, fresh_feed, logits, facade, feed>>

\* from_state_id_to_dfa_state_id_with_r(word, stride2)
UnpackCall ==
    /\ construction.op # "built"
    /\ construction.word # None
    /\ construction.unpacked = << >>
    /\ construction' = [construction EXCEPT
                           !.op = "unpack",
                           !.unpacked = from_state_id_to_dfa_state_id_with_r(
                                            construction.word, construction.sizes.stride2)]
    /\ UNCHANGED <<g, engine, accepted_bytes, last_call, fresh_feed, logits, facade, feed>>

NextNew ==
    \/ NewCall
    \/ PackCall
    \/ UnpackCall

SpecNew == InitNew /\ [][NextNew]_vars

\* ======================================================= reference language
\* L(G) of a lowered grammar, decided on a byte string s without the engine:
\* Derives(G, s) is the least set of <<nonterminal, i, j>> such that the
\* nonterminal derives s[i+1 .. j].
RECURSIVE DfaRun(_, _, _, _)
DfaRun(dfa, s, i, j) ==
    IF j = i THEN dfa.start ELSE dfa.next[DfaRun(dfa, s, i, j - 1), s[j]]

\* Ends of the matches of one symbol that begin after position i.
SymbolEnds(G, s, node, i, D) ==
    CASE node.kind = "Terminal" ->
           LET t == get_terminal(G, node.id)
           IN IF i + Len(t) <= Len(s) /\ SubSeq(s, i + 1, i + Len(t)) = t
              THEN {i + Len(t)} ELSE {}
      [] node.kind = "RegexString" ->
           LET dfa == get_regex(G, node.id)
           IN {j \in i + 1 .. Len(s) : dfa.status[DfaRun(dfa, s, i, j)] = "accept"}
      [] node.kind = "EXCEPT" ->
           LET dfa == get_excepted(G, node.id)
           IN {j \in i + 1 .. Len(s) :
                 /\ \A k \in i + 1 .. j : dfa.status[DfaRun(dfa, s, i, k)] # "accept"
                 /\ node.r = INVALID_REPETITION \/ j - i <= node.r}
      [] node.kind = "Nonterminal" -> {j \in i .. Len(s) : <<node.id, i, j>> \in D}

\* Positions reached after the first k symbols of a production begun at i.
RECURSIVE ProductionEnds(_, _, _, _, _, _)
ProductionEnds(G, s, production, k, i, D) ==
    IF k = 0 THEN {i}
    ELSE UNION {SymbolEnds(G, s, production[k], p, D) :
                  p \in ProductionEnds(G, s, production, k - 1, i, D)}

DerivesStep(G, s, D) ==
    {t \in (0 .. Len(G.rules) - 1) \X (0 .. Len(s)) \X (0 .. Len(s)) :
        \E pi \in DOMAIN G.rules[t[1] + 1] :
            LET production == G.rules[t[1] + 1][pi]
            IN t[3] \in ProductionEnds(G, s, production, Len(production), t[2], D)}

RECURSIVE DerivesFrom(_, _, _)
DerivesFrom(G, s, D) ==
    LET D2 == DerivesStep(G, s, D) IN IF D2 = D THEN D ELSE DerivesFrom(G, s, D2)

Derives(G, s) == DerivesFrom(G, s, {})

\* The lengths k for which s[1 .. k] is a string of L(G); D is Derives(G, s).
DerivedPrefixes(G, s, D) ==
    {k \in 0 .. Len(s) : <<get_start_nonterminal_id(G), 0, k>> \in D}

\* s is a string of L(G)
InL(G, s) == Len(s) \in DerivedPrefixes(G, s, Derives(G, s))

\* s[i+1 ..] is a prefix of a string of the symbol.  Every symbol of the
\* grammars above derives some string, and every live automaton state reaches
\* an accepting (regex) or stays in a non-accepting (except!) state.
SymbolOpens(G, s, node, i, P) ==
    \/ i = Len(s)
    \/ CASE node.kind = "Terminal" ->
              LET t == get_terminal(G, node.id)
              IN /\ Len(s) - i <= Len(t)
                 /\ SubSeq(s, i + 1, Len(s)) = SubSeq(t, 1, Len(s) - i)
         [] node.kind = "RegexString" ->
              LET dfa == get_regex(G, node.id)
              IN dfa.status[DfaRun(dfa, s, i, Len(s))] # "reject"
         [] node.kind = "EXCEPT" ->
              LET dfa == get_excepted(G, node.id)
              IN /\ \A k \in i + 1 .. Len(s) : dfa.status[DfaRun(dfa, s, i, k)] # "accept"
                 /\ node.r = INVALID_REPETITION \/ Len(s) - i <= node.r
         [] node.kind = "Nonterminal" -> <<node.id, i>> \in P

OpensStep(G, s, D, P) ==
    {t \in (0 .. Len(G.rules) - 1) \X (0 .. Len(s)) :
        \E pi \in DOMAIN G.rules[t[1] + 1] :
            LET production == G.rules[t[1] + 1][pi]
            IN \E k \in 1 .. Len(production) :
                 \E p \in ProductionEnds(G, s, production, k - 1, t[2], D) :
                     SymbolOpens(G, s, production[k], p, P)}

RECURSIVE OpensFrom(_, _, _, _)
OpensFrom(G, s, D, P) ==
    LET P2 == OpensStep(G, s, D, P) IN IF P2 = P THEN P ELSE OpensFrom(G, s, D, P2)

\* s is a prefix of some string of L(G)
IsPrefixOfL(G, s) ==
    <<get_start_nonterminal_id(G), 0>> \in OpensFrom(G, s, Derives(G, s), {})

\* s is a string of L(G) and none of its proper prefixes is
IsFirstStringOfL(G, s) == DerivedPrefixes(G, s, Derives(G, s)) = {Len(s)}

\* s is a prefix of some string of L(G) and none of its proper prefixes is a
\* string of L(G)
IsPrefixUpToFirstString(G, s) ==
    LET D == Derives(G, s)
    IN /\ DerivedPrefixes(G, s, D) \ {Len(s)} = {}
       /\ <<get_start_nonterminal_id(G), 0>> \in OpensFrom(G, s, D, {})

\* ================================================================== claims
\* Vocabulary::get_token_id_from_token
TokenIdOf(token) == CHOOSE id \in 0 .. get_vocab_size - 1 : VocabTokens[id + 1] = token

\* What a step is, read from the call it records.
AcceptCall == last_call'.op = "try_accept_new_token"
ComputeCall == last_call'.op = "compute_allowed_token_ids"
KnownToken == last_call'.token_id < get_vocab_size
FedToken == get_token_from_token_id(last_call'.token_id)
FedBytes == accepted_bytes \o FedToken

ChartUnchanged ==
    /\ engine'.earley_sets = engine.earley_sets
    /\ engine'.finished = engine.finished
    /\ engine'.postdot_items = engine.postdot_items

\* C1 (as stated): fed to a recognizer that since its reset has only accepted
\* tokens, a known token is accepted (Ongoing or Finished) if and only if the
\* stream accepted so far extended by the token is a prefix of some string of
\* L(grammar).
C1_AcceptIffPrefixOfL ==
    [][(fresh_feed /\ AcceptCall /\ KnownToken) =>
          (IsOk(last_call'.res) <=> IsPrefixOfL(Grammar, FedBytes))]_vars

\* C1 (amended): fed to a recognizer that since its reset has only accepted
\* tokens, a known token is accepted if and only if the stream extended by the
\* token is a prefix of some string of L(grammar) and no proper prefix of it is
\* already a string of L(grammar): the recognizer finishes at the first
\* complete derivation and accepts nothing after it.
C1_AcceptIffPrefixUpToFirstFinish ==
    [][(fresh_feed /\ AcceptCall /\ KnownToken) =>
          (IsOk(last_call'.res) <=> IsPrefixUpToFirstString(Grammar, FedBytes))]_vars

\* A multi-token stream accepted so far that is a prefix of the language.
C1_Witness ==
    /\ fresh_feed
    /\ last_call.op = "try_accept_new_token"
    /\ IsOk(last_call.res)
    /\ Len(accepted_bytes) >= 3
    /\ IsPrefixOfL(Grammar, accepted_bytes)

\* C2: after compute_allowed_token_ids the allowed set is exactly the set of
\* token ids that try_accept_new_token accepts from the state before the call.
C2_AllowedIffAcceptable ==
    [][ComputeCall =>
          engine'.allowed_token_ids =
              {t \in 0 .. get_vocab_size - 1 :
                  IsOk(try_accept_new_token(Grammar, engine, t).res)}]_vars

\* C3: compute_allowed_token_ids leaves the chart, the finished flag and the
\* postdot index as they were before the call.
C3_ComputeRestoresChart == [][ComputeCall => ChartUnchanged]_vars

\* A call that probed accepted and rejected tokens on a chart past set 0 with
\* a populated postdot index.
C3_Witness ==
    /\ last_call.op = "compute_allowed_token_ids"
    /\ engine.allowed_token_ids # {}
    /\ engine.allowed_token_ids # 0 .. get_vocab_size - 1
    /\ Len(engine.earley_sets) > 1
    /\ DOMAIN engine.postdot_items # {}

\* C4: a Rejected try_accept_new_token leaves the chart at its length before
\* the call with every set unchanged, the postdot index without the keys
\* added during the call, and finished false.
C4_RejectedRollsBack ==
    [][(AcceptCall /\ last_call'.res = "Rejected") =>
          /\ engine'.earley_sets = engine.earley_sets
          /\ engine'.postdot_items = engine.postdot_items
          /\ engine'.postdot_items_since_last_commit = {}
          /\ engine'.finished = FALSE]_vars

\* A two-byte token rejected at its second byte, its first byte accepted.
C4_Witness ==
    /\ last_call.op = "try_accept_new_token"
    /\ last_call.res = "Rejected"
    /\ Len(engine.earley_sets) > 1
    /\ LET token == get_token_from_token_id(last_call.token_id)
       IN /\ Len(token) = 2
          /\ accept_byte(Grammar, engine, Len(engine.earley_sets), token[1]).ok

\* C5: an accept that returns Finished raises the finished flag; while the
\* flag is up and reset is not called, every accept (any token id) returns the
\* Finished error, compute_allowed_token_ids included the chart and the flag
\* stay as they are.
C5_FinishedUntilReset ==
    [][/\ (AcceptCall /\ last_call'.res = "Finished") => engine'.finished
       /\ (engine.finished /\ last_call'.op # "reset") =>
             /\ ChartUnchanged
             /\ AcceptCall => last_call'.res = "ErrFinished"]_vars

\* An accept that met the finished recognizer.
C5_Witness ==
    /\ last_call.op = "try_accept_new_token"
    /\ last_call.res = "ErrFinished"
    /\ engine.finished

\* C6 (as stated): an id the vocabulary does not know returns UnknownTokenID
\* and changes nothing, whatever the state.
C6_UnknownIdAlways ==
    [][(AcceptCall /\ ~KnownToken) =>
          (last_call'.res = "UnknownTokenID" /\ ChartUnchanged)]_vars

\* C6 (amended): an id the vocabulary does not know returns UnknownTokenID
\* when the recognizer is not finished and the Finished error when it is; the
\* chart, the postdot index and the finished flag are unchanged in both cases.
C6_UnknownIdUnlessFinished ==
    [][(AcceptCall /\ ~KnownToken) =>
          /\ last_call'.res = IF engine.finished THEN "ErrFinished" ELSE "UnknownTokenID"
          /\ ChartUnchanged]_vars

\* An unknown id met past set 0.
C6_Witness ==
    /\ last_call.op = "try_accept_new_token"
    /\ last_call.token_id >= get_vocab_size
    /\ last_call.res = "UnknownTokenID"
    /\ Len(engine.earley_sets) > 1

\* C7 (as stated): fed to a recognizer that since its reset has only accepted
\* tokens, a known token that completes a string of L(grammar) returns
\* Finished and leaves is_finished() true.
C7_StringOfLFinishes ==
    [][(fresh_feed /\ AcceptCall /\ KnownToken /\ InL(Grammar, FedBytes)) =>
          (last_call'.res = "Finished" /\ engine'.finished)]_vars

\* C7 (amended): fed to a recognizer that since its reset has only accepted
\* tokens, a known token that completes a string of L(grammar) none of whose
\* proper prefixes is one returns Finished and leaves is_finished() true.
C7_FirstStringOfLFinishes ==
    [][(fresh_feed /\ AcceptCall /\ KnownToken /\ IsFirstStringOfL(Grammar, FedBytes)) =>
          (last_call'.res = "Finished" /\ engine'.finished)]_vars

\* A string of the right-recursive grammar 9 finished through its Leo chain.
C7_Witness ==
    /\ g = 9
    /\ fresh_feed
    /\ last_call.res = "Finished"
    /\ engine.finished
    /\ Len(accepted_bytes) >= 3
    /\ InL(Grammar, accepted_bytes)

SingleTerminalGrammar(G) ==
    /\ Len(G.rules) = 1
    /\ Len(G.rules[1]) = 1
    /\ Len(G.rules[1][1]) = 1
    /\ G.rules[1][1][1].kind = "Terminal"

\* C8: for a grammar whose only production is one terminal w, in every state
\* reached by accepts, rejected calls and compute_allowed_token_ids calls in
\* any order, with k < Len(w) bytes accepted: a one-byte token other than
\* w[k+1] returns Rejected, the token w[k+1] returns Ongoing while bytes of w
\* remain after it and Finished when it is the last.
C8_SingleTerminal ==
    [][(/\ AcceptCall /\ KnownToken
        /\ SingleTerminalGrammar(Grammar)
        /\ Len(FedToken) = 1
        /\ Len(accepted_bytes) < Len(get_terminal(Grammar, 0))) =>
          LET w == get_terminal(Grammar, 0)
              k == Len(accepted_bytes)
          IN last_call'.res = IF FedToken[1] # w[k + 1] THEN "Rejected"
                              ELSE IF k + 1 < Len(w) THEN "Ongoing"
                              ELSE "Finished"]_vars

\* 'aaa' matched to its last byte.
C8_Witness ==
    /\ SingleTerminalGrammar(Grammar)
    /\ last_call.op = "try_accept_new_token"
    /\ last_call.res = "Finished"
    /\ accepted_bytes = <<97, 97, 97>>

\* the accepted stream is "bb" repeated
RepeatedBB == Len(accepted_bytes) % 2 = 0 /\ \A i \in DOMAIN accepted_bytes : accepted_bytes[i] = 98

\* C9 (as stated): for grammar 2 (start ::= 'bb' | start 'bb') every feed of
\* the token "bb" after any number of "bb" returns Finished.
C9_EveryBBFinishes ==
    [][(g = 2 /\ AcceptCall /\ last_call'.token_id = TokenIdOf(<<98, 98>>) /\ RepeatedBB) =>
          last_call'.res = "Finished"]_vars

\* C9 (amended): for grammar 2 the token "bb" fed to the fresh recognizer
\* returns Finished; fed again after that it returns the Finished error and
\* changes nothing.
C9_FirstBBFinishes ==
    [][(g = 2 /\ AcceptCall /\ last_call'.token_id = TokenIdOf(<<98, 98>>) /\ RepeatedBB) =>
          IF accepted_bytes = << >>
          THEN last_call'.res = "Finished" /\ engine'.finished
          ELSE last_call'.res = "ErrFinished" /\ ChartUnchanged]_vars

\* "bb" accepted once by the left-recursive grammar.
C9_Witness ==
    /\ g = 2
    /\ last_call = Call("try_accept_new_token", TokenIdOf(<<98, 98>>), "Finished")
    /\ accepted_bytes = <<98, 98>>

Count(s, b) == Cardinality({i \in DOMAIN s : s[i] = b})

\* C10: for grammar 4 (start ::= ('{' start '}')?), in every state reached
\* with compute_allowed_token_ids calls anywhere between the accepts: '{'
\* after only '{' returns Ongoing; '}' returns Ongoing while it leaves a '{'
\* unmatched and Finished when it matches the last one.
C10_CentreRecursion ==
    [][(g = 4 /\ AcceptCall /\ KnownToken) =>
          LET opens == Count(accepted_bytes, 123)
              closes == Count(accepted_bytes, 125)
          IN /\ (FedToken = <<123>> /\ closes = 0) => last_call'.res = "Ongoing"
             /\ (FedToken = <<125>> /\ closes < opens) =>
                   last_call'.res = IF closes + 1 = opens THEN "Finished" ELSE "Ongoing"]_vars

\* Two '{' then two '}' fed, the last '}' finishing.
C10_Witness ==
    /\ g = 4
    /\ last_call.res = "Finished"
    /\ Len(accepted_bytes) >= 4
    /\ Count(accepted_bytes, 123) = Count(accepted_bytes, 125)

\* ------------------------------------------------------------------ C11
NEWLINE == 10
NoNewline(s) == \A i \in DOMAIN s : s[i] # NEWLINE
\* The ids of the tokens made of bytes that #".+" takes.
BodyTokenIds == {id \in 0 .. get_vocab_size - 1 : NoNewline(VocabTokens[id + 1])}

\* C11 (feeding half): for start ::= #".+" '\n', fed from reset, every token
\* without a newline returns Ongoing and the '\n' token after a non-empty
\* body returns Finished.
C11_BodyThenNewlineFinishes ==
    [][(g = 5 /\ AcceptCall /\ KnownToken /\ fresh_feed /\ NoNewline(accepted_bytes))
       => /\ NoNewline(FedToken) => last_call'.res = "Ongoing"
          /\ (accepted_bytes # << >> /\ FedToken = <<NEWLINE>>) => last_call'.res = "Finished"]_vars

\* C11: for start ::= #".+" '\n', fed from reset, every token without a
\* newline returns Ongoing, the '\n' token after a non-empty body returns
\* Finished, and compute_allowed_token_ids after an accepted non-empty body
\* allows every token that extends the match and the newline token.
C11_RegexThenNewline ==
    [][g = 5 =>
       /\ (AcceptCall /\ KnownToken /\ fresh_feed /\ NoNewline(accepted_bytes))
          => /\ NoNewline(FedToken) => last_call'.res = "Ongoing"
             /\ (accepted_bytes # << >> /\ FedToken = <<NEWLINE>>)
                => last_call'.res = "Finished"
       /\ (ComputeCall /\ fresh_feed /\ accepted_bytes # << >> /\ NoNewline(accepted_bytes))
          => (BodyTokenIds \cup {TokenIdOf(<<NEWLINE>>)}) \subseteq engine'.allowed_token_ids]_vars

\* ------------------------------------------------------------------ C12
\* The positions at which an occurrence of "\n\n" that starts at position
\* from or later ends (positions count from 1).
EndsOfNlNl(s, from) ==
    {j \in from + 1 .. Len(s) : s[j - 1] = NEWLINE /\ s[j] = NEWLINE}

Min(S) == CHOOSE x \in S : \A y \in S : x <= y

\* s[1..k] is a body followed by "\n\n", the body being non-empty and free
\* of "\n\n".
BodyThenNlNl(s, k) ==
    /\ k >= 3
    /\ s[k - 1] = NEWLINE /\ s[k] = NEWLINE
    /\ EndsOfNlNl(SubSeq(s, 1, k - 2), 1) = {}

\* What a token fed from reset returns when the recognizer finishes at the
\* first of the positions E of the stream: Finished when the token ends
\* there, an error when it reaches past it.
FinishesAtFirst(E) ==
    /\ last_call'.res = "Finished" <=> (E # {} /\ Min(E) = Len(FedBytes))
    /\ (E # {} /\ Min(E) < Len(FedBytes)) => last_call'.res \in {"Rejected", "ErrFinished"}

\* C12 (as stated): for start ::= except!('\n\n') '\n\n', fed from reset, the
\* recognizer is Finished exactly when the stream ends at its first
\* occurrence of "\n\n"; nothing reaching past that occurrence is accepted.
C12_FinishedAtFirstNlNl ==
    [][(g = 6 /\ AcceptCall /\ KnownToken /\ fresh_feed)
       => FinishesAtFirst(EndsOfNlNl(FedBytes, 1))]_vars

\* C12 (amended): the recognizer is Finished exactly when the stream is, for
\* the first time, a non-empty body free of "\n\n" followed by "\n\n";
\* nothing reaching past that is accepted.
C12_FinishedAtFirstBodyThenNlNl ==
    [][(g = 6 /\ AcceptCall /\ KnownToken /\ fresh_feed)
       => FinishesAtFirst({k \in 1 .. Len(FedBytes) : BodyThenNlNl(FedBytes, k)})]_vars

\* "\n\n" fed after a one-byte body that is not a newline: Finished.
C12_Witness ==
    /\ g = 6
    /\ fresh_feed
    /\ last_call = Call("try_accept_new_token", TokenIdOf(<<NEWLINE, NEWLINE>>), "Finished")
    /\ Len(accepted_bytes) = 3
    /\ accepted_bytes[1] # NEWLINE

\* ------------------------------------------------------------------ C13
\* C13: for start ::= except!('\n\n', MaxRep) '\n\n', fed from reset, a
\* Finished stream has a body of 1 .. MaxRep bytes before its last two
\* bytes, an Ongoing one is at most MaxRep + 1 bytes long, and after MaxRep
\* body bytes a token that does not start with '\n' is Rejected.
C13_BoundedBody ==
    [][(g = 7 /\ AcceptCall /\ KnownToken /\ fresh_feed) =>
          /\ last_call'.res = "Finished" =>
                /\ Len(FedBytes) - 2 \in 1 .. MaxRep
                /\ SubSeq(FedBytes, Len(FedBytes) - 1, Len(FedBytes)) = <<NEWLINE, NEWLINE>>
          /\ last_call'.res = "Ongoing" => Len(FedBytes) <= MaxRep + 1
          /\ (Len(accepted_bytes) = MaxRep /\ NoNewline(accepted_bytes)
              /\ FedToken[1] # NEWLINE) => last_call'.res = "Rejected"]_vars

\* MaxRep body bytes were accepted and a further body byte was refused.
C13_Witness ==
    /\ g = 7
    /\ fresh_feed = FALSE
    /\ last_call.op = "try_accept_new_token"
    /\ last_call.res = "Rejected"
    /\ Len(accepted_bytes) = MaxRep
    /\ NoNewline(accepted_bytes)
    /\ get_token_from_token_id(last_call.token_id) = <<97>>

\* ------------------------------------------------------------------ C14
\* The recognizer e with the config replaced.
WithConfig(e, config) == [e EXCEPT !.config = config]

ResetCall == last_call'.op = "reset"

\* C14: a recognizer that differs from this one only in cache_enabled and
\* compaction_enabled is built equal to it up to the config, and from states
\* equal up to the config every try_accept_new_token,
\* compute_allowed_token_ids and reset returns the same result and leaves
\* states equal up to the config, the allowed-token set included.
C14_ConfigIndependent ==
    [][\A config \in EngineConfigs :
          /\ last_call.op = "new" => NewEngine(Grammar, config) = WithConfig(engine, config)
          /\ AcceptCall =>
                try_accept_new_token(Grammar, WithConfig(engine, config), last_call'.token_id)
                    = [e |-> WithConfig(engine', config), res |-> last_call'.res]
          /\ ComputeCall =>
                /\ compute_allowed_token_ids(Grammar, WithConfig(engine, config))
                      = WithConfig(engine', config)
                /\ compute_allowed_token_ids(Grammar, WithConfig(engine, config)).allowed_token_ids
                      = engine'.allowed_token_ids
          /\ ResetCall => reset(Grammar, WithConfig(engine, config)) = WithConfig(engine', config)]_vars

\* compute_allowed_token_ids has just found tokens to allow after an accept.
C14_Witness ==
    /\ last_call.op = "compute_allowed_token_ids"
    /\ engine.allowed_token_ids # {}
    /\ accepted_bytes # << >>
    /\ engine.config = DefaultEngineConfig

\* ------------------------------------------------------------------ C15
UpdateCall == last_call'.op = "update_logits"
MaskCall == last_call'.op = "mask_logits"

\* C15: a successful update_logits(id, logits) returns what
\* try_accept_new_token(id) returns from the same state and leaves the
\* recognizer as try_accept_new_token(id), compute_allowed_token_ids and
\* mask_logits made in sequence leave it.
C15_UpdateLogitsIsComposition ==
    [][(UpdateCall /\ IsOk(last_call'.res)) =>
          /\ last_call'.res = try_accept_new_token(Grammar, engine, last_call'.token_id).res
          /\ engine' = compute_allowed_token_ids(Grammar,
                           try_accept_new_token(Grammar, engine, last_call'.token_id).e)
          /\ logits'.left = mask_logits(engine', logits'.passed).logits]_vars

\* ------------------------------------------------------------------ C16
\* C16: mask_logits returns InvalidLogitsLength exactly when the slice is not
\* of the vocabulary's size, and then leaves the slice as passed; otherwise
\* the position of every token id outside the allowed set of the last
\* computation is -infinity and every other position is as passed.
C16_MaskLogits ==
    [][MaskCall =>
          /\ last_call'.res = "InvalidLogitsLength" <=> Len(logits'.passed) # get_vocab_size
          /\ last_call'.res = "InvalidLogitsLength" => logits'.left = logits'.passed
          /\ last_call'.res # "InvalidLogitsLength" =>
                /\ last_call'.res = "Ok"
                /\ Len(logits'.left) = Len(logits'.passed)
                /\ \A id \in 0 .. get_vocab_size - 1 :
                      logits'.left[id + 1] = IF id \in engine.allowed_token_ids
                                             THEN logits'.passed[id + 1]
                                             ELSE NEG_INFINITY]_vars

\* A slice of the right size was masked with some tokens allowed: a finite
\* position was set to -infinity and another one was left finite.
C16_Witness ==
    /\ last_call = Call("mask_logits", None, "Ok")
    /\ \E i \in DOMAIN logits.left :
          logits.left[i] = NEG_INFINITY /\ logits.passed[i] # NEG_INFINITY
    /\ \E i \in DOMAIN logits.left : logits.left[i] # NEG_INFINITY

\* ------------------------------------------------------------------ C17
\* C17: after any sequence of calls, reset leaves the recognizer as
\* EngineBase::new built it: one Earley set, a postdot index with column 0
\* only, empty Leo memo and buffers, an empty allowed set, finished false;
\* a second reset changes nothing.
C17_ResetRestoresInitial ==
    [][ResetCall =>
          /\ engine' = NewEngine(Grammar, engine.config)
          /\ reset(Grammar, engine') = engine'
          /\ Len(engine'.earley_sets) = 1
          /\ \A key \in DOMAIN engine'.postdot_items : key.column = 0
          /\ engine'.leo_items = EmptyMap /\ engine'.leo_items_buffer = << >>
          /\ engine'.to_be_completed_items = {} /\ engine'.to_be_completed_items_buffer = {}
          /\ engine'.deduplication_buffer = {}
          /\ engine'.allowed_token_ids = {} /\ ~engine'.finished]_vars

\* reset has just been called on a recognizer whose postdot index is not empty.
C17_Witness ==
    /\ last_call.op = "reset"
    /\ engine = NewEngine(Grammar, DefaultEngineConfig)
    /\ DOMAIN engine.postdot_items # {}
    /\ accepted_bytes = << >>

\* ------------------------------------------------------------------ C18
\* The dimensions d fit the widths w.
Fits(d, w) ==
    /\ d.terminals <= w.TI /\ d.nonterminals <= w.TI /\ d.excepteds <= w.TI
    /\ d.max_r <= w.TE /\ d.td <= w.TD /\ d.tp <= w.TP /\ d.tsp <= w.TSP /\ d.ts <= w.TS

\* v is nowhere wider than w and somewhere narrower.
Narrower(v, w) ==
    /\ v.TI <= w.TI /\ v.TE <= w.TE /\ v.TD <= w.TD
    /\ v.TP <= w.TP /\ v.TSP <= w.TSP /\ v.TS <= w.TS
    /\ v # w

\* C18: Engine::with_config returns InvalidInputError exactly when no
\* supported width combination fits the dimensions; otherwise the
\* combination it chooses fits, no fitting combination is narrower, and a
\* maximum repetition that fits in 8 bits never gets a 16-bit counter.
C18_SmallestWidths ==
    facade.union # "None" =>
        /\ facade.union = "InvalidInputError" <=>
              ~\E u \in DOMAIN EngineUnion : Fits(facade.dimensions, EngineUnion[u])
        /\ facade.union # "InvalidInputError" =>
              /\ Fits(facade.dimensions, EngineUnion[facade.union])
              /\ ~\E u \in DOMAIN EngineUnion :
                     /\ Fits(facade.dimensions, EngineUnion[u])
                     /\ Narrower(EngineUnion[u], EngineUnion[facade.union])
              /\ facade.dimensions.max_r <= U8_BITS => EngineUnion[facade.union].TE <= U8_BITS

\* ------------------------------------------------------------------ C19
\* C19 (I2): in every reachable state no Earley set holds two items with
\* the same (nonterminal_id, dot_position, production_index, start_position,
\* state_id), whether Scan, Predict or the drained completion buffer
\* appended them.
C19_EarleySetsDeduplicated ==
    \A k \in DOMAIN engine.earley_sets :
        \A i, j \in DOMAIN engine.earley_sets[k] :
            i # j => engine.earley_sets[k][i] # engine.earley_sets[k][j]

\* ------------------------------------------------------------------ C20
\* C20: the Leo memo is valid in every reachable state, also after a revert
\* followed by further feeding: every entry key -> topmost of leo_items is
\* what the walk of the current postdot index from key through the
\* LeoEligible entries yields.
C20_LeoMemoValid ==
    \A key \in DOMAIN engine.leo_items :
        engine.leo_items[key] = LeoWalk(engine.postdot_items, key, << >>)[1]

\* ------------------------------------------------------------------ C21
\* The items of the Earley set of a column whose next node is the
\* nonterminal nt, in the order of the set.
WaitingFor(G, e, nt, column) ==
    SelectSeq(e.earley_sets[column + 1],
              LAMBDA item : NodeOf(G, item) = Nonterminal(nt))

\* The postdot index of e lists, under every key, exactly the items of that
\* column that wait for that nonterminal, and has a key for each of them.
PostdotExact(G, e) ==
    /\ \A key \in DOMAIN e.postdot_items :
          /\ key.column < Len(e.earley_sets)
          /\ e.postdot_items[key].items =
                 WaitingFor(G, e, key.postdot_nonterminal_id, key.column)
    /\ \A k \in DOMAIN e.earley_sets : \A i \in DOMAIN e.earley_sets[k] :
          NodeOf(G, e.earley_sets[k][i]).kind = "Nonterminal" =>
              Dotted(NodeOf(G, e.earley_sets[k][i]).id, k - 1) \in DOMAIN e.postdot_items

\* A step that ends in a rollback: a rejected token, or a probe.
RolledBack ==
    \/ AcceptCall /\ last_call'.res = "Rejected"
    \/ ComputeCall /\ ~engine.finished

\* C21 (I6): between operations the postdot index, keyed by (nonterminal,
\* column), lists exactly the items of that column whose next node is that
\* nonterminal, with no key for a column outside the chart; a step that
\* rolls back leaves the index as it was before the step.
C21_PostdotExact ==
    [][/\ PostdotExact(Grammar, engine)
       /\ PostdotExact(Grammars[g'], engine')
       /\ RolledBack => /\ engine'.postdot_items = engine.postdot_items
                        /\ engine'.postdot_items_since_last_commit = {}]_vars

\* A rejected token whose first byte had added a key to the index, on a
\* chart of several columns that has entries of its own.
C21_Witness ==
    /\ last_call.op = "try_accept_new_token"
    /\ last_call.res = "Rejected"
    /\ Len(engine.earley_sets) > 1
    /\ \E key \in DOMAIN engine.postdot_items : key.column > 0
    /\ LET token == get_token_from_token_id(last_call.token_id)
       IN /\ Len(token) = 2
          /\ accept_byte(Grammar, engine, Len(engine.earley_sets), token[1]).ok
          /\ accept_byte(Grammar, engine, Len(engine.earley_sets),
                         token[1]).e.postdot_items_since_last_commit # {}

\* ------------------------------------------------------------------ C22
\* C22 (as stated): after every revert to a snapshot length L (a rejected
\* token, a probe rollback) to_be_completed, to_be_completed_buffer,
\* deduplication_buffer and leo_items_buffer are empty, the chart has
\* length L and finished is false.
C22_RevertEmptiesBuffers ==
    [][RolledBack =>
          /\ engine'.to_be_completed_items = {}
          /\ engine'.to_be_completed_items_buffer = {}
          /\ engine'.deduplication_buffer = {}
          /\ engine'.leo_items_buffer = << >>
          /\ Len(engine'.earley_sets) = Len(engine.earley_sets)
          /\ engine'.finished = FALSE]_vars

\* C22 (amended): after every revert to a snapshot length L to_be_completed,
\* to_be_completed_buffer and deduplication_buffer are empty, the chart has
\* length L and finished is false; leo_items_buffer keeps the keys of the
\* last Leo walk, and is cleared before it is next written.
C22_RevertEmptiesCompletionBuffers ==
    [][RolledBack =>
          /\ engine'.to_be_completed_items = {}
          /\ engine'.to_be_completed_items_buffer = {}
          /\ engine'.deduplication_buffer = {}
          /\ Len(engine'.earley_sets) = Len(engine.earley_sets)
          /\ engine'.finished = FALSE]_vars

\* A rejected token after whose rollback leo_items_buffer still holds keys.
C22_Witness ==
    /\ last_call.op = "try_accept_new_token"
    /\ last_call.res = "Rejected"
    /\ engine.leo_items_buffer # << >>
    /\ engine.to_be_completed_items = {}
    /\ engine.finished = FALSE

\* ------------------------------------------------------------------ C23
\* C23: try_accept_new_token returns Finished, and is_finished() is true,
\* only if the bytes of the tokens accepted since the last reset form a
\* string of L(grammar), whatever rejected tokens and probes came between.
C23_FinishedOnlyInL ==
    (last_call.res = "Finished" \/ engine.finished) => InL(Grammar, accepted_bytes)

\* ------------------------------------------------------------------ C24
\* The pairs (nt, origin) that can be pending on the chart of e.
PendingPairs(G, e) ==
    { ToBeCompletedItem(nt, origin) :
          nt \in 0 .. get_nonterminals_size(G) - 1,
          origin \in 0 .. Len(e.earley_sets) - 1 }

IsStartAtZero(G, pair) ==
    pair = ToBeCompletedItem(get_start_nonterminal_id(G), 0)

PostdotKey(pair) == Dotted(pair.nonterminal_id, pair.start_position)

\* What the completion of pair leaves in the two buffers is what the advance
\* of every item of a NormalItems entry puts there, and nothing otherwise.
AdvancesListed(G, e, pair, r) ==
    IF PostdotKey(pair) \in DOMAIN e.postdot_items
       /\ e.postdot_items[PostdotKey(pair)].kind = "NormalItems"
    THEN LET items == e.postdot_items[PostdotKey(pair)].items
         IN /\ r.deduplication_buffer = e.deduplication_buffer \cup
                   UNION { SeqToSet(advance_item(G, items[i]).row) : i \in DOMAIN items }
            /\ r.to_be_completed_items_buffer = e.to_be_completed_items_buffer \cup
                   UNION { advance_item(G, items[i]).tbc : i \in DOMAIN items }
    ELSE /\ r.deduplication_buffer = e.deduplication_buffer
         /\ r.to_be_completed_items_buffer = e.to_be_completed_items_buffer

\* C24 (as stated): completing a pending pair (nt, origin) sets finished
\* only when (nt, origin) = (start, 0) and the postdot index has no entry
\* for the pair; a pending (start, 0) with an entry advances the listed
\* items instead.
C24_FinishedOnlyWithoutEntry ==
    ~engine.finished =>
        \A pair \in PendingPairs(Grammar, engine) :
            /\ earley_complete_one_item(Grammar, pair, engine).finished <=>
                   /\ IsStartAtZero(Grammar, pair)
                   /\ PostdotKey(pair) \notin DOMAIN engine.postdot_items
            /\ AdvancesListed(Grammar, engine, pair,
                              earley_complete_one_item(Grammar, pair, engine))

\* C24 (amended): completing a pending pair (nt, origin) sets finished
\* exactly when (nt, origin) = (start, 0), whether or not the postdot index
\* has an entry for the pair; the items of a NormalItems entry are advanced
\* in either case.
C24_FinishedAtStartZero ==
    ~engine.finished =>
        \A pair \in PendingPairs(Grammar, engine) :
            /\ earley_complete_one_item(Grammar, pair, engine).finished <=>
                   IsStartAtZero(Grammar, pair)
            /\ AdvancesListed(Grammar, engine, pair,
                              earley_complete_one_item(Grammar, pair, engine))

\* left_recursion: 'bb' has finished start ::= 'bb' | start 'bb', whose
\* start symbol has a postdot entry at column 0, on a chart of two columns.
C24_Witness ==
    /\ last_call.op = "try_accept_new_token"
    /\ last_call.res = "Finished"
    /\ engine.finished
    /\ accepted_bytes = <<98, 98>>
    /\ Dotted(get_start_nonterminal_id(Grammar), 0) \in DOMAIN engine.postdot_items
    /\ earley_complete_one_item(Grammar,
           ToBeCompletedItem(get_start_nonterminal_id(Grammar), 0),
           [engine EXCEPT !.finished = FALSE]).deduplication_buffer # {}

\* ------------------------------------------------------------------ C25
\* C25: every feed of one byte terminates for every lowered grammar, also
\* one whose unit productions refer back to one another at the same origin:
\* once scan has returned, the rounds of complete reach a fixed point and
\* accept_byte returns (the byte is rejected, or accepted after predict and
\* update_postdot_items).
C25_ByteTerminates ==
    (feed.phase = "scanned") ~> (feed.phase \in {"idle", "byte"})

\* ------------------------------------------------------------------ C26
\* Advancing the dot of item would complete its production.
AdvanceCompletes(G, item) ==
    item.dot_position + 1 = Len(G.rules[item.nonterminal_id + 1][item.production_index + 1])

\* C26: after every update of the postdot index an entry is
\* LeoEligible(item) exactly when item is the only item of its column whose
\* next node is the nonterminal of the key and advancing its dot would
\* complete its production; every other entry is NormalItems holding all
\* such items, a lone item that fails the condition included.
C26_LeoEligibleIffLoneCompleting ==
    \A key \in DOMAIN engine.postdot_items :
        LET waiting == WaitingFor(Grammar, engine, key.postdot_nonterminal_id, key.column)
        IN /\ engine.postdot_items[key].items = waiting
           /\ engine.postdot_items[key].kind \in {"LeoEligible", "NormalItems"}
           /\ engine.postdot_items[key].kind = "LeoEligible" <=>
                  /\ Len(waiting) = 1
                  /\ AdvanceCompletes(Grammar, waiting[1])

\* An accepted token has left an index with a LeoEligible entry, a
\* NormalItems entry of several items and an entry added by the token.
C26_Witness ==
    /\ last_call.op = "try_accept_new_token"
    /\ last_call.res = "Ongoing"
    /\ \E key \in DOMAIN engine.postdot_items :
          engine.postdot_items[key].kind = "LeoEligible"
    /\ \E key \in DOMAIN engine.postdot_items :
          /\ engine.postdot_items[key].kind = "NormalItems"
          /\ Len(engine.postdot_items[key].items) > 1
    /\ \E key \in DOMAIN engine.postdot_items : key.column > 0

\* ------------------------------------------------------------------ C27
AllPhases == <<"Scan", "Complete", "Predict", "Postdot">>

\* The phases run so far for the byte in hand, given where the call stands.
PhasesAt(phase) ==
    CASE phase = "scanned" -> SubSeq(AllPhases, 1, 1)
      [] phase \in {"completing", "completed"} -> SubSeq(AllPhases, 1, 2)
      [] phase = "predicted" -> SubSeq(AllPhases, 1, 3)
      [] OTHER -> AllPhases

\* C27: within one fed byte the phases run in the order Scan, Complete,
\* Predict, Postdot-update, each at most once; a byte rejected after Scan
\* has run none of the later phases; byte i+1 of a token is scanned against
\* the chart the four phases of byte i produced, which is the chart
\* accept_byte returns for byte i.
C27_PhaseOrder ==
    [][/\ feed'.phase \notin {"idle", "byte"} => feed'.trace = PhasesAt(feed'.phase)
       /\ (feed'.phase = "idle" /\ feed.phase \notin {"idle", "byte", "predicted"}) =>
              /\ last_call'.res = "Rejected"
              /\ feed'.trace = SubSeq(AllPhases, 1, 1)
              /\ engine' = accept_byte(Grammar, feed.before, feed.len, Head(feed.pending)).e
              /\ ~accept_byte(Grammar, feed.before, feed.len, Head(feed.pending)).ok
       /\ (feed'.phase = "idle" /\ feed.phase = "byte") =>
              /\ last_call'.res = "Rejected"
              /\ feed'.trace = << >>
       /\ feed.phase = "predicted" =>
              /\ feed'.phase \in {"idle", "byte"}
              /\ feed'.trace = AllPhases
              /\ accept_byte(Grammar, feed.before, feed.len, Head(feed.pending)).ok
              /\ engine' \in
                   { accept_byte(Grammar, feed.before, feed.len, Head(feed.pending)).e,
                     commit_change(accept_byte(Grammar, feed.before, feed.len,
                                               Head(feed.pending)).e) }
       /\ (feed.phase = "byte" /\ Len(feed.pending) <
                                     Len(get_token_from_token_id(feed.token_id))) =>
              /\ feed.trace = AllPhases
              /\ feed'.before = engine]_vars

\* The second byte of a token has been accepted: it was scanned after the
\* four phases of the first.
C27_Witness ==
    /\ feed.phase = "idle"
    /\ last_call.op = "try_accept_new_token"
    /\ IsOk(last_call.res)
    /\ Len(get_token_from_token_id(last_call.token_id)) = 2
    /\ feed.trace = AllPhases
    /\ Len(engine.earley_sets) = feed.len + 2

\* ------------------------------------------------------------------ C28
ProductionLen(G, item) ==
    Len(G.rules[item.nonterminal_id + 1][item.production_index + 1])

\* C28 (I1): no completed item is in an Earley set: every item of every
\* set has dot < |production(nt, prod)|; the advance of an item whose dot
\* would reach the end of its production inserts (nt, origin) into the
\* pending set and hands nothing to the Earley set, and every other advance
\* hands over the item with its dot moved by one and inserts nothing.
C28_NoCompletedItemInSets ==
    \A k \in DOMAIN engine.earley_sets : \A i \in DOMAIN engine.earley_sets[k] :
        LET item == engine.earley_sets[k][i]
        IN /\ item.dot_position < ProductionLen(Grammar, item)
           /\ IF item.dot_position + 1 = ProductionLen(Grammar, item)
              THEN advance_item(Grammar, item) =
                       [row |-> << >>,
                        tbc |-> {ToBeCompletedItem(item.nonterminal_id,
                                                   item.start_position)}]
              ELSE /\ advance_item(Grammar, item).tbc = {}
                   /\ Len(advance_item(Grammar, item).row) = 1
                   /\ advance_item(Grammar, item).row[1].dot_position =
                          item.dot_position + 1

\* An accepted byte completed a nonterminal: the last set holds an item
\* whose dot a completion moved past that nonterminal, not at the end.
C28_Witness ==
    /\ last_call.op = "try_accept_new_token"
    /\ last_call.res = "Ongoing"
    /\ \E i \in DOMAIN Last(engine.earley_sets) :
          LET item == Last(engine.earley_sets)[i]
          IN /\ item.dot_position > 0
             /\ get_node(Grammar, item.nonterminal_id, item.dot_position - 1,
                         item.production_index).kind = "Nonterminal"

\* ------------------------------------------------------------------ C29
RECURSIVE LeadingFrom(_, _)
\* The nonterminals reachable from those of N through the first node of a
\* production.
LeadingFrom(G, N) ==
    LET more == UNION { { G.rules[nt + 1][j][1].id :
                              j \in { k \in DOMAIN G.rules[nt + 1] :
                                         G.rules[nt + 1][k][1].kind = "Nonterminal" } } :
                          nt \in N }
    IN IF more \subseteq N THEN N ELSE LeadingFrom(G, N \cup more)

\* The predictive closure of the start symbol at origin 0: one dot-0 item
\* per production of every nonterminal of LeadingFrom.
StartClosure(G) ==
    UNION { { EarleyItem(nt, 0, j - 1, 0,
                         initialize_state_id_based_on_node(G, G.rules[nt + 1][j][1])) :
                  j \in DOMAIN G.rules[nt + 1] } :
              nt \in LeadingFrom(G, {get_start_nonterminal_id(G)}) }

\* C29 (I4): in every reachable state the chart is not empty and set 0 holds
\* exactly the predictive closure of the start symbol at origin 0, each
\* item once; so no accept, probe or rollback alters set 0.
C29_SetZeroIsStartClosure ==
    /\ Len(engine.earley_sets) >= 1
    /\ SeqToSet(engine.earley_sets[1]) = StartClosure(Grammar)
    /\ Len(engine.earley_sets[1]) = Cardinality(StartClosure(Grammar))

\* A token was rejected on a chart of several sets whose set 0 holds
\* predictions of nonterminals other than the start symbol.
C29_Witness ==
    /\ last_call.op = "try_accept_new_token"
    /\ last_call.res = "Rejected"
    /\ Len(engine.earley_sets) > 1
    /\ \E i \in DOMAIN engine.earley_sets[1] :
          engine.earley_sets[1][i].nonterminal_id # get_start_nonterminal_id(Grammar)

\* ------------------------------------------------------------------ C30
\* The DFA state an except item holds, and its class.
ExceptStatus(G, item) ==
    LET dfa == get_excepted(G, NodeOf(G, item).id)
    IN check_dfa_state_status(
           from_state_id_to_dfa_state_id_with_r(item.state_id, dfa.stride2)[1], dfa)

\* The bytes on which the except item's DFA signals that the body occurred.
MatchingBytes(G, item) ==
    LET dfa == get_excepted(G, NodeOf(G, item).id)
        s == from_state_id_to_dfa_state_id_with_r(item.state_id, dfa.stride2)[1]
    IN {b \in Bytes : check_dfa_state_status(dfa.next[s, b], dfa) = "accept"}

\* The items of the row that sit at the node of the item.
AtNode(row, item) ==
    {i \in DOMAIN row :
        /\ row[i].nonterminal_id = item.nonterminal_id
        /\ row[i].production_index = item.production_index
        /\ row[i].start_position = item.start_position
        /\ row[i].dot_position = item.dot_position}

\* The items of the row that are the item with its dot freshly moved past
\* the node (an item that was past the node before has moved on in its
\* terminal or automaton, or waits for a nonterminal in an earlier row).
PastNode(G, row, item) ==
    {i \in DOMAIN row : row[i] \in SeqToSet(advance_item(G, item).row)}

\* C30 (I5): every item of every Earley set whose next node is Except(e, reps)
\* holds a state of e's DFA classified accept or in-progress, never reject;
\* on a byte whose transition signals that the forbidden body was matched
\* the scan of the item pushes nothing and completes nothing, and where the
\* chart went on over such a byte the next set holds no continuation of the
\* item, neither at the except node nor past it.
C30_ExceptItemsNeverMatched ==
    \A k \in DOMAIN engine.earley_sets : \A i \in DOMAIN engine.earley_sets[k] :
        LET item == engine.earley_sets[k][i]
        IN NodeOf(Grammar, item).kind = "EXCEPT" =>
             /\ ExceptStatus(Grammar, item) \in {"accept", "in_progress"}
             /\ ExceptStatus(Grammar, item) # "reject"
             /\ \A b \in MatchingBytes(Grammar, item) :
                    ScanItem(Grammar, item, b) = [row |-> << >>, tbc |-> {}]
             /\ (/\ k < Len(engine.earley_sets)
                 /\ k <= Len(accepted_bytes)
                 /\ Len(engine.earley_sets) = Len(accepted_bytes) + 1
                 /\ \A j \in AtNode(engine.earley_sets[k], item) :
                        accepted_bytes[k] \in
                            MatchingBytes(Grammar, engine.earley_sets[k][j]))
                => /\ AtNode(engine.earley_sets[k + 1], item) = {}
                   /\ PastNode(Grammar, engine.earley_sets[k + 1], item) = {}

\* The body '\n\n' occurred in the accepted stream: the except item that had
\* seen one newline met the second.
C30_Witness ==
    /\ Len(engine.earley_sets) = Len(accepted_bytes) + 1
    /\ \E k \in 1 .. Len(accepted_bytes) : \E i \in DOMAIN engine.earley_sets[k] :
          LET item == engine.earley_sets[k][i]
          IN /\ NodeOf(Grammar, item).kind = "EXCEPT"
             /\ accepted_bytes[k] \in MatchingBytes(Grammar, item)
             /\ AtNode(engine.earley_sets[k + 1], item) = {}

\* ------------------------------------------------------------------ C31
\* The state the regex item's DFA moves to on the byte, and its class.
RegexNext(G, item, byte) ==
    LET dfa == get_regex(G, NodeOf(G, item).id)
    IN dfa.next[from_state_id_to_dfa_state_id(item.state_id, dfa.stride2), byte]

RegexClass(G, item, byte) ==
    check_dfa_state_status(RegexNext(G, item, byte), get_regex(G, NodeOf(G, item).id))

\* The same-node continuation: the item carrying the new DFA state.
SameNode(G, item, byte) ==
    [item EXCEPT !.state_id =
        from_dfa_state_id_to_state_id(RegexNext(G, item, byte),
                                      get_regex(G, NodeOf(G, item).id).stride2)]

\* The advanced-dot continuation: the item past its node, seeded for the
\* node it then stands before, or, where the production ends there, the
\* pending completion of its nonterminal.
AdvancedDot(G, item) ==
    IF item.dot_position + 1 < ProductionLen(G, item)
    THEN [row |-> << [item EXCEPT
                        !.dot_position = item.dot_position + 1,
                        !.state_id = initialize_state_id_based_on_node(G,
                            get_node(G, item.nonterminal_id, item.dot_position + 1,
                                     item.production_index))] >>,
          tbc |-> {}]
    ELSE [row |-> << >>,
          tbc |-> {ToBeCompletedItem(item.nonterminal_id, item.start_position)}]

\* The classes met by the regex items of set k on the byte accepted there.
RegexClassesAt(k) ==
    { RegexClass(Grammar, engine.earley_sets[k][i], accepted_bytes[k]) :
        i \in { j \in DOMAIN engine.earley_sets[k] :
                  NodeOf(Grammar, engine.earley_sets[k][j]).kind = "RegexString" } }

\* C31: the scan of an item whose next node is a regex moves the DFA on the
\* byte; on accept it yields the advanced-dot continuation and then the
\* same-node continuation carrying the new state, on in-progress the
\* same-node continuation alone, on reject nothing; and the set built for an
\* accepted byte holds these continuations.
C31_RegexScan ==
    \A k \in DOMAIN engine.earley_sets : \A i \in DOMAIN engine.earley_sets[k] :
        LET item == engine.earley_sets[k][i]
        IN NodeOf(Grammar, item).kind = "RegexString" =>
             /\ \A b \in Bytes :
                   LET class == RegexClass(Grammar, item, b)
                       out == ScanItem(Grammar, item, b)
                   IN /\ class = "accept" =>
                            out = [row |-> AdvancedDot(Grammar, item).row
                                             \o <<SameNode(Grammar, item, b)>>,
                                   tbc |-> AdvancedDot(Grammar, item).tbc]
                      /\ class = "in_progress" =>
                            out = [row |-> <<SameNode(Grammar, item, b)>>, tbc |-> {}]
                      /\ class = "reject" => out = [row |-> << >>, tbc |-> {}]
             /\ k <= Len(accepted_bytes) =>
                   LET b == accepted_bytes[k]
                       class == RegexClass(Grammar, item, b)
                       next == SeqToSet(engine.earley_sets[k + 1])
                   IN /\ class = "accept" =>
                            /\ SameNode(Grammar, item, b) \in next
                            /\ SeqToSet(AdvancedDot(Grammar, item).row) \subseteq next
                      /\ class = "in_progress" =>
                            /\ SameNode(Grammar, item, b) \in next
                            /\ SeqToSet(AdvancedDot(Grammar, item).row) \cap next = {}
                      /\ RegexClassesAt(k) = {"reject"} =>
                            AtNode(engine.earley_sets[k + 1], item) = {}

\* #"ab+" 'cc' fed "abcc": 'a' leaves the automaton in progress, 'b' is
\* accepted by it, 'c' is rejected by it.
C31_Witness ==
    /\ Len(engine.earley_sets) = Len(accepted_bytes) + 1
    /\ \E k1, k2, k3 \in 1 .. Len(accepted_bytes) :
          /\ RegexClassesAt(k1) = {"in_progress"}
          /\ RegexClassesAt(k2) = {"accept"}
          /\ RegexClassesAt(k3) = {"reject"}

\* ------------------------------------------------------------------ C32
\* The DFA state and the remaining repetitions an except item holds.
ExceptHeld(G, item) ==
    from_state_id_to_dfa_state_id_with_r(item.state_id,
                                         get_excepted(G, NodeOf(G, item).id).stride2)

\* The state the except item's DFA moves to on the byte.
ExceptNext(G, item, byte) ==
    get_excepted(G, NodeOf(G, item).id).next[ExceptHeld(G, item)[1], byte]

\* The bytes on which the except item's DFA stays in progress.
ExtendingBytes(G, item) ==
    {b \in Bytes :
        check_dfa_state_status(ExceptNext(G, item, b),
                               get_excepted(G, NodeOf(G, item).id)) = "in_progress"}

\* out is the advanced-dot continuation followed by one in-place continuation
\* that holds the DFA state s and r remaining repetitions.
BothContinuations(G, item, out, s, r) ==
    /\ out.tbc = AdvancedDot(G, item).tbc
    /\ Len(out.row) = Len(AdvancedDot(G, item).row) + 1
    /\ SubSeq(out.row, 1, Len(out.row) - 1) = AdvancedDot(G, item).row
    /\ Last(out.row) = [item EXCEPT !.state_id = Last(out.row).state_id]
    /\ ExceptHeld(G, Last(out.row)) = <<s, r>>

\* What the claim lets the scan of an except item yield on an extending byte.
ExceptScanned(G, item, b, out) ==
    LET r == ExceptHeld(G, item)[2]
    IN IF r = INVALID_REPETITION
       THEN BothContinuations(G, item, out, ExceptNext(G, item, b), INVALID_REPETITION)
       ELSE IF r - 1 = INVALID_REPETITION
            THEN out = AdvancedDot(G, item)
            ELSE BothContinuations(G, item, out, ExceptNext(G, item, b), r - 1)

\* C32: the scan of an except item on a byte that leaves its DFA in progress
\* yields, with no finite bound, the advanced-dot and an in-place continuation;
\* with a finite bound the counter is decremented and the scan yields the
\* advanced-dot continuation alone when the counter is then exhausted, and
\* otherwise both, the in-place continuation carrying the decremented counter;
\* the set built for an accepted byte holds what the scan yielded.
C32_ExceptScan ==
    \A k \in DOMAIN engine.earley_sets : \A i \in DOMAIN engine.earley_sets[k] :
        LET item == engine.earley_sets[k][i]
        IN NodeOf(Grammar, item).kind = "EXCEPT" =>
             /\ \A b \in ExtendingBytes(Grammar, item) :
                    ExceptScanned(Grammar, item, b, ScanItem(Grammar, item, b))
             /\ (k <= Len(accepted_bytes) /\ accepted_bytes[k] \in ExtendingBytes(Grammar, item))
                  => LET next == engine.earley_sets[k + 1]
                     IN /\ SeqToSet(AdvancedDot(Grammar, item).row) \subseteq SeqToSet(next)
                        /\ \A j \in AtNode(next, item) :
                               ExceptHeld(Grammar, next[j]) =
                                   <<ExceptNext(Grammar, item, accepted_bytes[k]),
                                     IF ExceptHeld(Grammar, item)[2] = INVALID_REPETITION
                                     THEN INVALID_REPETITION
                                     ELSE ExceptHeld(Grammar, item)[2] - 1>>
                        /\ (AtNode(next, item) = {}) <=>
                               (ExceptHeld(Grammar, item)[2] - 1 = INVALID_REPETITION)

\* A bounded except item was extended with repetitions to spare, and then
\* once more with its last one.
C32_Witness ==
    /\ Len(engine.earley_sets) = Len(accepted_bytes) + 1
    /\ \E k \in 1 .. Len(accepted_bytes) - 1 :
       \E i \in DOMAIN engine.earley_sets[k], j \in DOMAIN engine.earley_sets[k + 1] :
          LET item == engine.earley_sets[k][i]
              kept == engine.earley_sets[k + 1][j]
          IN /\ NodeOf(Grammar, item).kind = "EXCEPT"
             /\ ExceptHeld(Grammar, item)[2] > 1
             /\ accepted_bytes[k] \in ExtendingBytes(Grammar, item)
             /\ kept \in { engine.earley_sets[k + 1][n] :
                              n \in AtNode(engine.earley_sets[k + 1], item) }
             /\ ExceptHeld(Grammar, kept)[2] = 1
             /\ accepted_bytes[k + 1] \in ExtendingBytes(Grammar, kept)
             /\ AtNode(engine.earley_sets[k + 2], kept) = {}

\* ------------------------------------------------------------------ C33
\* The next statement of the probe feeds the first byte of a token: the
\* first TokenByte after a NewToken event (also the one a rejection skipped
\* to), or the first byte of a token containing a separator.
FirstByteDue ==
    \/ /\ feed.phase = "events"
       /\ feed.i <= Len(feed.events)
       /\ feed.events[feed.i].kind = "TokenByte"
       /\ feed.i > 1
       /\ feed.events[feed.i - 1].kind = "NewToken"
    \/ /\ feed.phase = "separators"
       /\ feed.ids # << >>
       /\ feed.pending = VocabTokens[Head(feed.ids) + 1]

\* C33: during compute_allowed_token_ids every token is probed from the
\* snapshot: whenever the first byte of a token is about to be fed (after a
\* NewToken event, after the skip that follows a rejection, and for each
\* token containing a separator) the chart has the length taken at the start
\* of the call and finished is false; and the probe run event by event ends
\* in the engine the call run whole returns.
C33_ProbedFromSnapshot ==
    [][/\ FirstByteDue => (Len(engine.earley_sets) = feed.len /\ ~engine.finished)
       /\ (feed.phase = "separators" /\ feed.ids = << >> /\ feed'.phase = "idle")
            => engine' = compute_allowed_token_ids(Grammar, feed.before)]_vars

\* In a probe begun after accepted bytes a token was found allowed, and the
\* first byte of a further token is due.
C33_Witness ==
    /\ FirstByteDue
    /\ feed.len > 1
    /\ engine.allowed_token_ids # {}

\* ------------------------------------------------------------------ C34
\* The bytes the call that just returned added to the accepted stream: those
\* of its token when it accepted one and returned Ok, none otherwise.
BytesOfCall(call) ==
    IF call.op \in {"try_accept_new_token", "update_logits"} /\ IsOk(call.res)
    THEN Len(get_token_from_token_id(call.token_id))
    ELSE 0

\* C34: between operations the chart's length is 1 plus the number of bytes
\* of the tokens accepted by successful calls since the last reset: a new or
\* reset recognizer has one set, a call that returns Ok for a token adds one
\* set per byte of the token, and every other call (a rejected token, a
\* failed call, compute_allowed_token_ids, mask_logits) adds none.
C34_ChartLengthIsAcceptedBytes ==
    /\ Len(engine.earley_sets) = 1
    /\ [][Len(engine'.earley_sets) =
             IF last_call'.op = "reset" THEN 1
             ELSE Len(engine.earley_sets) + BytesOfCall(last_call')]_vars

\* ------------------------------------------------------------------ C38
\* C38: an update_logits that returns an error (Finished, UnknownTokenID,
\* Rejected or InvalidLogitsLength) leaves the chart, the postdot index and
\* the finished flag as they were before the call: the token is not accepted.
C38_FailedUpdateLogitsAcceptsNothing ==
    [][(last_call'.op = "update_logits" /\ ~IsOk(last_call'.res)) =>
          /\ engine'.earley_sets = engine.earley_sets
          /\ engine'.postdot_items = engine.postdot_items
          /\ engine'.finished = engine.finished]_vars

\* ------------------------------------------------------------------ C35
\* the accepted stream is "cc" repeated
RepeatedCC == Len(accepted_bytes) % 2 = 0 /\ \A i \in DOMAIN accepted_bytes : accepted_bytes[i] = 99

\* Every set of the chart holds at most one item more than start has
\* productions, however many sets there are.
SetsHoldConstantItems(e) ==
    \A k \in DOMAIN e.earley_sets : Len(e.earley_sets[k]) <= Len(Grammar.rules[1]) + 1

\* C35 (as stated): for grammar 3 (start ::= 'cc' | 'cc' start) the token
\* "cc" fed after any number of "cc" is accepted, the first time with
\* Finished, and every Earley set holds at most a constant number of items.
C35_EveryCCAccepted ==
    [][(g = 3 /\ AcceptCall /\ last_call'.token_id = TokenIdOf(<<99, 99>>) /\ RepeatedCC) =>
          /\ IsOk(last_call'.res)
          /\ accepted_bytes = << >> => last_call'.res = "Finished"
          /\ SetsHoldConstantItems(engine')]_vars

\* C35 (amended): for grammar 3 the token "cc" fed to the fresh recognizer
\* returns Finished; fed again after that it returns the Finished error and
\* changes nothing; every Earley set holds at most a constant number of items.
C35_FirstCCFinishes ==
    [][(g = 3 /\ AcceptCall /\ last_call'.token_id = TokenIdOf(<<99, 99>>) /\ RepeatedCC) =>
          /\ IF accepted_bytes = << >>
             THEN last_call'.res = "Finished" /\ engine'.finished
             ELSE last_call'.res = "ErrFinished" /\ ChartUnchanged
          /\ SetsHoldConstantItems(engine')]_vars

\* "cc" accepted once by the right-recursive grammar, then refused.
C35_Witness ==
    /\ g = 3
    /\ last_call = Call("try_accept_new_token", TokenIdOf(<<99, 99>>), "ErrFinished")
    /\ accepted_bytes = <<99, 99>>
    /\ Len(engine.earley_sets) = 3

\* ------------------------------------------------------------------ C36
\* The nonterminals that are the next node of some item of the row.
NextNonterminals(G, row) ==
    { NodeOf(G, row[i]).id : i \in { j \in DOMAIN row : NodeOf(G, row[j]).kind = "Nonterminal" } }

\* The item Predict makes for production j of nonterminal nt in set k.
Predicted(G, nt, j, k) ==
    EarleyItem(nt, 0, j, k,
               initialize_state_id_based_on_node(G, get_node(G, nt, 0, j)))

\* How often the item occurs in the row.
Occurrences(row, item) == Cardinality({i \in DOMAIN row : row[i] = item})

\* The nonterminals with an item of set k that Predict made there.
PredictedIn(G, row, k) ==
    { nt \in 0 .. Len(G.rules) - 1 :
        \E j \in 0 .. get_production_len(G, nt) - 1 : Occurrences(row, Predicted(G, nt, j, k)) > 0 }

\* C36: in every set k of every chart, each nonterminal that is the next
\* node of some item of the set has exactly one dot-0 item per production
\* with origin k, no other nonterminal has one (but the start symbol in set
\* 0), and the already-predicted bitset is empty between calls, also in the
\* sets built after a rollback.
C36_PredictedOncePerSet ==
    /\ engine.already_predicted_nonterminals = {}
    /\ \A k \in DOMAIN engine.earley_sets :
          LET row == engine.earley_sets[k]
              due == NextNonterminals(Grammar, row)
                       \cup (IF k = 1 THEN {get_start_nonterminal_id(Grammar)} ELSE {})
          IN /\ \A nt \in due : \A j \in 0 .. get_production_len(Grammar, nt) - 1 :
                   Occurrences(row, Predicted(Grammar, nt, j, k - 1)) = 1
             /\ PredictedIn(Grammar, row, k - 1) = due

\* After a call that failed or probed, an accepted token built a set in
\* which a nonterminal with more than one production is predicted.
C36_Witness ==
    /\ ~fresh_feed
    /\ last_call.op = "try_accept_new_token"
    /\ last_call.res = "Ongoing"
    /\ Len(engine.earley_sets) > 1
    /\ \E nt \in NextNonterminals(Grammar, Last(engine.earley_sets)) :
          get_production_len(Grammar, nt) > 1

\* ------------------------------------------------------------------ C37
\* C37 (I3): every item of set k (counted from 0) has origin <= k.
C37_OriginAtMostSet ==
    \A k \in DOMAIN engine.earley_sets : \A i \in DOMAIN engine.earley_sets[k] :
        engine.earley_sets[k][i].start_position <= k - 1

\* A chart of several sets whose last set holds an item begun in an earlier
\* set next to an item predicted in the last set itself.
C37_Witness ==
    /\ Len(engine.earley_sets) > 2
    /\ \E i, j \in DOMAIN Last(engine.earley_sets) :
          /\ Last(engine.earley_sets)[i].start_position = Len(engine.earley_sets) - 1
          /\ Last(engine.earley_sets)[j].start_position < Len(engine.earley_sets) - 1
          /\ Last(engine.earley_sets)[j].start_position > 0

\* ------------------------------------------------------------------ C39
\* C39: in every chart the recognizer can reach, also one with more sets
\* than the origin width chosen from expected_output_length counts, every
\* nonterminal that is the next node of an item of set k has its predicted
\* items there with origin k exactly, and every key of the postdot index
\* has the column of the set its items stand in.
C39_OriginsNeverWrap ==
    /\ \A k \in DOMAIN engine.earley_sets :
          \A nt \in NextNonterminals(Grammar, engine.earley_sets[k]) :
             \A j \in 0 .. get_production_len(Grammar, nt) - 1 :
                Occurrences(engine.earley_sets[k], Predicted(Grammar, nt, j, k - 1)) > 0
    /\ \A key \in DOMAIN engine.postdot_items :
          /\ key.column + 1 \in DOMAIN engine.earley_sets
          /\ \A i \in DOMAIN engine.postdot_items[key].items :
                LET item == engine.postdot_items[key].items[i]
                IN /\ NodeOf(Grammar, item) = Nonterminal(key.postdot_nonterminal_id)
                   /\ item \in SeqToSet(engine.earley_sets[key.column + 1])

\* ------------------------------------------------------------------ C40
\* The largest state count of an except automaton the sub-state word holds.
ExceptedMax == Pow2(STATE_ID_TYPE_BIT - EXCEPTED_ID_TYPE_BIT) - 1

\* Every state index below 2^(W-E) packed with every count below 2^E
\* unpacks to the same pair.
PackingLossless ==
    \A stride2 \in {z.stride2 : z \in SizeInputs} :
       \A s \in 0 .. ExceptedMax : \A r \in 0 .. Pow2(EXCEPTED_ID_TYPE_BIT) - 1 :
          from_state_id_to_dfa_state_id_with_r(
              from_dfa_state_id_to_state_id_with_r(s * Pow2(stride2), stride2, r), stride2)
            = <<s * Pow2(stride2), r>>

\* The pair that was packed and unpacked in this state came back unchanged
\* if its state index is below 2^(W-E).
UnpackedAsPacked ==
    (/\ construction.op # "built"
     /\ construction.unpacked # << >>
     /\ construction.state_id \div Pow2(construction.sizes.stride2) <= ExceptedMax)
        => construction.unpacked = <<construction.state_id, construction.r>>

\* EngineBase::new has returned for a grammar with an except automaton of
\* more than 2^(W-E) - 1 states.
NewOnTooLarge ==
    /\ construction.op # "built"
    /\ construction.res # "None"
    /\ construction.sizes.ex > ExceptedMax

\* C40 as stated: packing and unpacking is lossless for every state index
\* below 2^(W-E) and every count below 2^E, and EngineBase::new returns
\* ExceptedTooLarge for every grammar with an except automaton of more than
\* 2^(W-E) - 1 states.
C40_LosslessAndRefused ==
    /\ PackingLossless
    /\ UnpackedAsPacked
    /\ NewOnTooLarge => construction.res = "ExceptedTooLarge"

\* C40 amended: packing and unpacking is lossless on that range, and
\* EngineBase::new returns an error for every grammar with an except
\* automaton of more than 2^(W-E) - 1 states: TerminalTooLong or
\* RegexTooLarge if a terminal is longer than 2^W - 1 bytes or a regex
\* automaton has more than 2^W - 1 states, ExceptedTooLarge otherwise; it
\* returns ExceptedTooLarge for no other grammar.
C40_LosslessAndRefusedInOrder ==
    /\ PackingLossless
    /\ UnpackedAsPacked
    /\ NewOnTooLarge =>
          /\ construction.res \in {"TerminalTooLong", "RegexTooLarge", "ExceptedTooLarge"}
          /\ construction.res = "ExceptedTooLarge"
                <=> /\ construction.sizes.t <= Pow2(STATE_ID_TYPE_BIT) - 1
                    /\ construction.sizes.rx <= Pow2(STATE_ID_TYPE_BIT) - 1
    /\ (construction.op # "built" /\ construction.res = "ExceptedTooLarge")
          => construction.sizes.ex > ExceptedMax

\* The largest state index with the largest count has been packed and
\* unpacked, and the smallest automaton that does not fit has been refused.
C40_Witness ==
    /\ construction.op # "built"
    /\ construction.unpacked # << >>
    /\ construction.state_id = ExceptedMax * Pow2(construction.sizes.stride2)
    /\ construction.r = Pow2(EXCEPTED_ID_TYPE_BIT) - 1
    /\ construction.res = "ExceptedTooLarge"
    /\ construction.sizes.ex = ExceptedMax + 1

====
